---- MODULE Spec2Model ----
(***************************************************************************)
(* A model of pyfed's signing and delivery core:                           *)
(*   security/http_signatures.py   HTTPSignatureVerifier                   *)
(*   security/key_management.py    KeyManager                              *)
(*   federation/rate_limit.py      RateLimiter                             *)
(*   federation/delivery.py        ActivityDelivery                        *)
(*   federation/queue.py           DeliveryQueue                           *)
(*   cache/memory_cache.py         MemoryCache                             *)
(*   serializers/json_serializer.py ActivityPubSerializer.to_json_string   *)
(*                                                                         *)
(* Cryptography is idealised: an RSA signature is the pair (signing key,   *)
(* signed bytes), SHA-256 and base64 are injective.  Strings that the code *)
(* formats and parses again are kept as the structured value that the      *)
(* format/parse pair carries; where the formats of two code paths differ   *)
(* (JSON separators, header-name case) the difference is modelled.         *)
(***************************************************************************)
EXTENDS Integers, Sequences, FiniteSets, TLC

VARIABLES
    active_keys,   \* KeyManager.active_keys: key_id -> KeyPair
    utcnow,        \* datetime.utcnow(), in minutes
    test_now,      \* HTTPSignatureVerifier._test_now (NoTime when None)
    signed,        \* the last sign_request call and what it returned
    verified,      \* the last verify_request call and what it returned
    rate_state,    \* RateLimiter.cache: domain -> RateLimitState
    call,          \* the deliver_to_inbox call in progress and its result
    queue,         \* DeliveryQueue: the Redis store and index, the worker, its log
    limiter,       \* a RateLimiter with its MemoryCache, its clock and its calls
    rotation_task, \* KeyManager._rotation_task: when the rotation loop next wakes
    keys_path,     \* the files under KeyManager.keys_path: file -> content
    key_call,      \* the last call of a KeyManager method and what it returned
    fanout,        \* the deliver_to_shared_inbox call in progress and its result
    signing,       \* the sign_request calls made next to a key rotation
    inflight       \* the concurrent deliver_to_inbox calls to one domain

vars ==
    <<active_keys, utcnow, test_now, signed, verified, rate_state, call, queue,
      limiter, rotation_task, keys_path, key_call, fanout, signing, inflight>>

(***************************************************************************)
(* Bounds of the model                                                     *)
(***************************************************************************)
\* the clock runs from 0 to MaxTime minutes
MaxTime == 6
\* recursion depth (retry_count) at which the model stops following a call
MaxDepth == 5

(***************************************************************************)
(* Program constants                                                       *)
(***************************************************************************)
\* skew = timedelta(minutes=5)
SkewMinutes == 5
\* ActivityDelivery(max_retries=3)
max_retries == 3
\* RateLimit(requests=100, ...) of ActivityDelivery.rate_limiter
default_requests == 100
\* RateLimit(period=60): 60 seconds, one minute of the model's clock
default_period == 1
\* KeyRotation(rotation_interval=30), days
rotation_interval == 30
\* KeyRotation(key_overlap=2), days
key_overlap == 2
\* minutes of a day
Day == 1440
\* await asyncio.sleep(3600): the cooldown of the rotation loop, in minutes
Hour == 60

NoTime == 0 - 1
NoStatus == 0 - 1
None == [none |-> TRUE]

(***************************************************************************)
(* Python dict helpers                                                     *)
(***************************************************************************)
\* d[k] = v on a dict
Put(d, k, v) == [x \in (DOMAIN d) \cup {k} |-> IF x = k THEN v ELSE d[x]]

\* del d[k]
Drop(d, k) == [x \in (DOMAIN d) \ {k} |-> d[x]]

EmptyDict == <<>>

\* str.lower() on the header names and methods of the model
lower(s) ==
    CASE s = "Host" -> "host"
      [] s = "Date" -> "date"
      [] s = "Digest" -> "digest"
      [] s = "Signature" -> "signature"
      [] s = "Content-Type" -> "content-type"
      [] s = "User-Agent" -> "user-agent"
      [] s = "Accept" -> "accept"
      [] s = "POST" -> "post"
      [] s = "GET" -> "get"
      [] OTHER -> s

\* {k.lower(): v for k, v in headers.items()}; where two names fall together the
\* one inserted last wins, which in sign_request is the injected lower-case name
headers_lower(h) ==
    [n \in {lower(k) : k \in DOMAIN h} |->
        IF n \in DOMAIN h THEN h[n] ELSE h[CHOOSE k \in DOMAIN h : lower(k) = n]]

(***************************************************************************)
(* JSON serialisation of a body (a dict of scalar fields)                  *)
(***************************************************************************)
\* sort_keys=True: the keys in sorted order
KeyOrder == <<"a", "b">>

RECURSIVE JsonItems(_, _, _, _, _)
JsonItems(d, i, first, item_sep, key_sep) ==
    IF i > Len(KeyOrder) THEN <<>>
    ELSE IF KeyOrder[i] \in DOMAIN d
         THEN (IF first THEN <<>> ELSE <<item_sep>>)
              \o <<KeyOrder[i], key_sep, d[KeyOrder[i]]>>
              \o JsonItems(d, i + 1, FALSE, item_sep, key_sep)
         ELSE JsonItems(d, i + 1, first, item_sep, key_sep)

\* json.dumps(d, sort_keys=True, separators=(item_sep, key_sep)), as its characters
json_dumps(d, item_sep, key_sep) ==
    <<"{">> \o JsonItems(d, 1, TRUE, item_sep, key_sep) \o <<"}">>

\* ActivityPubSerializer.to_json_string: separators=(',', ':')
to_json_string(d) == json_dumps(d, ",", ":")

\* f"SHA-256={b64encode(sha256(bytes))}"
Sha256Header(bytes) == [kind |-> "digest", alg |-> "SHA-256", of |-> bytes]

\* HTTPSignatureVerifier._generate_digest
_generate_digest(body) == Sha256Header(to_json_string(body))

\* the digest verify_request recomputes: json.dumps(body, sort_keys=True)
expected_digest(body) == Sha256Header(json_dumps(body, ", ", ": "))

(***************************************************************************)
(* KeyManager                                                              *)
(***************************************************************************)
LocalDomain == "a.example"

\* KeyManager.generate_key_pair: the pair made at time `at` (minutes)
NewKeyPair(at) ==
    [ private_key |-> [rsa |-> at],
      public_key  |-> [rsa |-> at],
      created_at  |-> at,
      expires_at  |-> at + rotation_interval * 1440,
      key_id      |-> [domain |-> LocalDomain, ts |-> at] ]

generate_key_pair(keys, at) == Put(keys, NewKeyPair(at).key_id, NewKeyPair(at))

\* a variant that returns the key created first
get_active_key_Oldest(keys) ==
    LET oldest == CHOOSE k \in DOMAIN keys :
                     \A j \in DOMAIN keys : keys[k].created_at <= keys[j].created_at
    IN keys[oldest]

\* KeyManager.get_active_key / get_active_private_key: the most recently created key;
\* both raise KeyManagementError on an empty active set (the callers test for it)
get_active_key(keys) ==
    LET newest == CHOOSE k \in DOMAIN keys :
                     \A j \in DOMAIN keys : keys[j].created_at <= keys[k].created_at
    IN keys[newest]

get_active_private_key(keys) == get_active_key(keys).private_key

\* the three artifacts of a key pair, by the ending of their file names
Exts == {"_private.pem", "_public.pem", ".json"}

\* a file: its directory ("keys" is keys_path, "archive" is keys_path/archive),
\* the part of its name before the ending, and the ending
File(dir, stem, ext) == [dir |-> dir, stem |-> stem, ext |-> ext]

\* safe_path of generate_key_pair: f"{safe_domain}_{safe_timestamp}"
safe_path(key_pair) ==
    [safe_domain |-> key_pair.key_id.domain, safe_timestamp |-> key_pair.created_at]

\* datetime.isoformat and datetime.fromisoformat
isoformat(t) == [iso |-> t]
fromisoformat(text) == text.iso

\* KeyManager._save_key_pair: the private key, the public key and the metadata
\* are written under keys_path with the names safe_path + ending
_save_key_pair(files, key_pair, stem) ==
    LET written == {File("keys", stem, ext) : ext \in Exts}
        content(f) ==
            CASE f.ext = "_private.pem" -> key_pair.private_key
              [] f.ext = "_public.pem" -> key_pair.public_key
              [] OTHER -> [key_id |-> key_pair.key_id,
                           created_at |-> isoformat(key_pair.created_at),
                           expires_at |-> isoformat(key_pair.expires_at),
                           safe_path |-> stem]
    IN [f \in DOMAIN files \cup written |->
          IF f \in written THEN content(f) ELSE files[f]]

\* KeyManager._archive_key_pair: for each ending, the file keys_path/<key_id><ending>
\* is renamed to keys_path/archive/<key_id><ending> if it exists
_archive_key_pair(files, key_pair) ==
    LET src == {File("keys", key_pair.key_id, ext) : ext \in Exts} \cap DOMAIN files
        dst == {File("archive", f.stem, f.ext) : f \in src}
    IN [f \in (DOMAIN files \ src) \cup dst |->
          IF f \in dst THEN files[File("keys", f.stem, f.ext)] ELSE files[f]]

\* KeyManager._load_existing_keys: every metadata file under keys_path (rglob
\* descends into archive) that has its private key beside it gives a key pair,
\* which joins the active set if it has not expired
_load_existing_keys(files, now) ==
    LET found == {f \in DOMAIN files :
                    /\ f.ext = ".json"
                    /\ File(f.dir, f.stem, "_private.pem") \in DOMAIN files}
        key_pair(f) ==
            LET private_key == files[File(f.dir, f.stem, "_private.pem")]
            IN [private_key |-> private_key,
                public_key  |-> private_key,
                created_at  |-> fromisoformat(files[f].created_at),
                expires_at  |-> fromisoformat(files[f].expires_at),
                key_id      |-> files[f].key_id]
        loaded == {f \in found : now <= key_pair(f).expires_at}
    IN [k \in {key_pair(f).key_id : f \in loaded} |->
          key_pair(CHOOSE f \in loaded : key_pair(f).key_id = k)]

\* KeyManager.verify_key: one of our keys is valid until it expires, a key of
\* another server is not
verify_key(keys, key_id, now) ==
    IF key_id \in DOMAIN keys THEN now <= keys[key_id].expires_at ELSE FALSE

\* no KeyManager method called yet
NoKeyCall == [op |-> "none", new_key |-> None, removed |-> {}, result |-> None]

\* no deliver_to_shared_inbox call made yet
NoFanout == [pc |-> "none"]

\* no sign_request call made so far, none in progress (the first call and the
\* latest one are kept)
NoSigning == [pc |-> "idle", held |-> None, first |-> None, last |-> None]

\* no deliver_to_inbox call asleep (`sleeping` lists the times at which the
\* sleeping calls wake), no POST sent in the current minute
NoInflight == [sleeping |-> <<>>, posts |-> 0]

(***************************************************************************)
(* HTTPSignatureVerifier                                                   *)
(***************************************************************************)
\* now = self._test_now if self._test_now is not None else datetime.utcnow()
Now == IF test_now # NoTime THEN test_now ELSE utcnow

\* now.strftime('%a, %d %b %Y %H:%M:%S GMT')
strftime(t) == [kind |-> "date", t |-> t]

Text(s) == [kind |-> "text", s |-> s]

Raise == [ok |-> FALSE, value |-> None]
Return(v) == [ok |-> TRUE, value |-> v]

\* headers_to_sign = ['(request-target)', 'host', 'date', 'digest']
headers_to_sign == <<"(request-target)", "host", "date", "digest">>

\* f"(request-target): {method.lower()} {path}"
RequestTargetLine(method, path) ==
    <<"(request-target)", [kind |-> "target", method |-> lower(method), path |-> path]>>

\* HTTPSignatureVerifier._build_signing_string: raises on a missing header
_build_signing_string(method, path, headers, signed_headers) ==
    LET hl == headers_lower(headers)
        missing == \E i \in 1..Len(signed_headers) :
                      /\ signed_headers[i] # "(request-target)"
                      /\ lower(signed_headers[i]) \notin DOMAIN hl
    IN IF missing THEN Raise
       ELSE Return([i \in 1..Len(signed_headers) |->
                IF signed_headers[i] = "(request-target)"
                THEN RequestTargetLine(method, path)
                ELSE <<lower(signed_headers[i]), hl[lower(signed_headers[i])]>>])

\* an RSA signature with a salt drawn per call (PSS padding)
rsa_sign_Salted(private_key, data) ==
    [signer |-> private_key, msg |-> data, salt |-> signing.first # None]

\* private_key.sign(data, PKCS1v15, SHA256): PKCS #1 v1.5 padding has no random part
rsa_sign(private_key, data) == [signer |-> private_key, msg |-> data]

\* public_key.verify(signature, data, PKCS1v15, SHA256): FALSE is InvalidSignature
rsa_verify(public_key, signature, data) ==
    signature.signer = public_key /\ signature.msg = data

b64encode(x) == [b64 |-> x]

\* one comma-separated part of a Signature header, key="value"
Part(k, v) == [eq |-> TRUE, k |-> k, v |-> v]

\* a part without '='
JunkPart == [eq |-> FALSE, k |-> "", v |-> [s |-> ""]]

\* f'keyId="{key_id}",algorithm="rsa-sha256",headers="{...}",signature="{b64}"'
signature_header(key_id, names, signature_b64) ==
    [ kind |-> "signature",
      parts |-> << Part("keyId", key_id),
                   Part("algorithm", [s |-> "rsa-sha256"]),
                   Part("headers", [names |-> names]),
                   Part("signature", signature_b64) >> ]

\* HTTPSignatureVerifier.sign_request with the private key and the key id that
\* its two key_manager calls returned
SignedHeaders(method, path, headers, body, private_key, key_id, now) ==
    LET h1 == IF "date" \in DOMAIN headers THEN headers
              ELSE Put(headers, "date", strftime(now))
        h2 == IF body # None THEN Put(h1, "digest", _generate_digest(body)) ELSE h1
        ss == _build_signing_string(method, path, h2, headers_to_sign)
    IN IF ~ss.ok THEN Raise
       ELSE LET signature == rsa_sign(private_key, ss.value)
            IN Return(Put(h2, "Signature",
                          signature_header(key_id, headers_to_sign, b64encode(signature))))

\* HTTPSignatureVerifier.sign_request
sign_request(method, path, headers, body, keys, now) ==
    IF DOMAIN keys = {} THEN Raise
    ELSE SignedHeaders(method, path, headers, body, get_active_private_key(keys),
                       get_active_key(keys).key_id, now)

\* the external key-resolution collaborator behind self._get_public_key(key_id):
\* `answer` is what the collaborator does on this call
RemoteKeyId == [domain |-> "remote.example", ts |-> 0]
RemoteKey == [rsa |-> -7]
EmptyKeyId == [domain |-> "", ts |-> 0]

_get_public_key(key_id, answer, keys) ==
    CASE answer = "raise" -> Raise
      [] answer = "none" -> Return(None)
      [] key_id \in DOMAIN keys -> Return(keys[key_id].public_key)
      [] key_id = RemoteKeyId -> Return(RemoteKey)
      [] OTHER -> Return(None)

\* the parse loop of verify_request: sig_parts[key.strip()] = value.strip(' "')
\* for every part holding '=', a later part overwriting an earlier one of its key
ParseSignature(parts) ==
    LET idx == {i \in 1..Len(parts) : parts[i].eq}
    IN [k \in {parts[i].k : i \in idx} |->
           parts[CHOOSE i \in idx :
                    /\ parts[i].k = k
                    /\ \A j \in idx : parts[j].k = k => j <= i].v]

\* HTTPSignatureVerifier._verify_date (strptime raises on a value that is no date)
_verify_date(date_header, now) ==
    IF date_header = None THEN FALSE
    ELSE IF date_header.kind # "date" THEN FALSE
    ELSE now - SkewMinutes <= date_header.t /\ date_header.t <= now + SkewMinutes

\* VerifyLines with the request target taken from the defaults of the call
\* instead of the request at hand
VerifyLines_DefaultTarget(headers, method, path, signed_headers) ==
    LET present == SelectSeq(signed_headers,
                       LAMBDA h : h = "(request-target)" \/ h \in DOMAIN headers)
    IN [i \in 1..Len(present) |->
           IF present[i] = "(request-target)"
           THEN RequestTargetLine("POST", "/inbox")
           ELSE <<present[i], headers[present[i]]>>]

\* the lines verify_request builds from the declared header list: a declared
\* header that the request does not carry adds no line
VerifyLines(headers, method, path, signed_headers) ==
    LET present == SelectSeq(signed_headers,
                       LAMBDA h : h = "(request-target)" \/ h \in DOMAIN headers)
    IN [i \in 1..Len(present) |->
           IF present[i] = "(request-target)"
           THEN RequestTargetLine(method, path)
           ELSE <<present[i], headers[present[i]]>>]

\* DigestMismatch with the comparison left out
DigestMismatch_Skipped(headers, body) == FALSE

\* verify_request: "if body is not None and 'digest' in headers" and the
\* recomputed digest differs from the header
DigestMismatch(headers, body) ==
    /\ body # None
    /\ "digest" \in DOMAIN headers
    /\ headers["digest"] # expected_digest(body)

\* the try block of verify_request: what it returns (ret), or that it raised
\* (exc), and the statement that decided (at)
Verdict(ret, exc, at) == [ret |-> ret, exc |-> exc, at |-> at]

VerifyBody(headers, method, path, body, answer, keys) ==
    IF "signature" \notin DOMAIN headers THEN Verdict(FALSE, FALSE, "no_signature_header")
    ELSE
    LET sig_parts == ParseSignature(headers["signature"].parts)
    IN
    IF ~({"keyId", "headers", "signature"} \subseteq DOMAIN sig_parts)
    THEN Verdict(FALSE, FALSE, "missing_parts")
    ELSE IF sig_parts["keyId"] = EmptyKeyId THEN Verdict(FALSE, FALSE, "no_key_id")
    ELSE IF DigestMismatch(headers, body) THEN Verdict(FALSE, FALSE, "digest")
    ELSE
    LET signing_string == VerifyLines(headers, method, path, sig_parts["headers"].names)
        public_key == _get_public_key(sig_parts["keyId"], answer, keys)
    IN
    IF ~public_key.ok THEN Verdict(FALSE, TRUE, "resolver_raised")
    ELSE IF public_key.value = None THEN Verdict(FALSE, FALSE, "no_public_key")
    ELSE IF "b64" \notin DOMAIN sig_parts["signature"]
    THEN Verdict(FALSE, TRUE, "b64decode_raised")
    ELSE IF rsa_verify(public_key.value, sig_parts["signature"].b64, signing_string)
    THEN Verdict(TRUE, FALSE, "verified")
    ELSE Verdict(FALSE, FALSE, "invalid_signature")

\* verify_request without the outer except clause
verify_request_NoCatch(headers, method, path, body, answer, keys) ==
    LET v == VerifyBody(headers, method, path, body, answer, keys)
    IN [result |-> IF v.exc THEN FALSE ELSE v.ret, raised |-> v.exc, at |-> v.at]

\* HTTPSignatureVerifier.verify_request: `except Exception: return False` around
\* the try block
verify_request(headers, method, path, body, answer, keys) ==
    LET v == VerifyBody(headers, method, path, body, answer, keys)
    IN [result |-> IF v.exc THEN FALSE ELSE v.ret, raised |-> FALSE, at |-> v.at]

(***************************************************************************)
(* Requests: what callers sign and what reaches verify_request             *)
(***************************************************************************)
Methods == {"POST", "post", "GET"}
SignMethods == {"POST", "post"}
Paths == {"/inbox", "/other"}
SignPath == "/inbox"
Bodies == {EmptyDict, [a |-> "1"], [a |-> "2"]}
Times == 0..MaxTime

\* the header dicts callers hand to sign_request
CallerHeaders ==
    { [host |-> Text(LocalDomain)],
      [Host |-> Text(LocalDomain)],
      [host |-> Text(LocalDomain), date |-> strftime(0)],
      EmptyDict }

\* the name under which dict h holds header n, whatever its case
NameIn(h, n) == CHOOSE k \in DOMAIN h : lower(k) = n
Has(h, n) == \E k \in DOMAIN h : lower(k) = n

\* the parts of a Signature header value with the part of key k left out
WithoutPart(parts, k) == SelectSeq(parts, LAMBDA p : p.k # k)

\* the parts with the value of key k replaced
WithPart(parts, k, v) ==
    [i \in 1..Len(parts) |-> IF parts[i].k = k THEN Part(k, v) ELSE parts[i]]

HeaderTampers == {"host", "date", "digest"}
HeaderDrops == {"drop_host", "drop_date", "drop_digest", "drop_signature"}
SignatureTampers ==
    { "sig_drop_keyId", "sig_drop_headers", "sig_drop_signature", "sig_empty_keyId",
      "sig_junk", "sig_bad_b64", "sig_wrong_bytes", "sig_unknown_key",
      "sig_fewer_declared" }
Tampers == {"none"} \cup HeaderTampers \cup HeaderDrops \cup SignatureTampers

TamperedValue(n) ==
    CASE n = "host" -> Text("evil.example")
      [] n = "date" -> Text("tampered date")
      [] n = "digest" -> Sha256Header(<<"tampered">>)

TamperedParts(parts, t) ==
    CASE t = "sig_drop_keyId" -> WithoutPart(parts, "keyId")
      [] t = "sig_drop_headers" -> WithoutPart(parts, "headers")
      [] t = "sig_drop_signature" -> WithoutPart(parts, "signature")
      [] t = "sig_empty_keyId" -> WithPart(parts, "keyId", EmptyKeyId)
      [] t = "sig_junk" -> <<JunkPart>>
      [] t = "sig_bad_b64" -> WithPart(parts, "signature", [notb64 |-> "%%%"])
      [] t = "sig_wrong_bytes" ->
             WithPart(parts, "signature", b64encode(rsa_sign(RemoteKey, <<>>)))
      [] t = "sig_unknown_key" ->
             WithPart(parts, "keyId", [domain |-> "nowhere.example", ts |-> 0])
      [] t = "sig_fewer_declared" ->
             WithPart(parts, "headers", [names |-> <<"(request-target)", "host">>])

\* the headers of a signed request as they reach the verifier: as sign_request
\* returned them or with lower-cased names (as an HTTP server hands them on),
\* and with at most one of them changed on the way
Delivered(out, keyform, t) ==
    LET base == IF keyform = "lowercased" THEN headers_lower(out) ELSE out
        sig == NameIn(base, "signature")
    IN CASE t = "none" -> base
         [] t \in HeaderTampers -> Put(base, NameIn(base, t), TamperedValue(t))
         [] t = "drop_host" -> Drop(base, NameIn(base, "host"))
         [] t = "drop_date" -> Drop(base, NameIn(base, "date"))
         [] t = "drop_digest" -> Drop(base, NameIn(base, "digest"))
         [] t = "drop_signature" -> Drop(base, sig)
         [] OTHER -> Put(base, sig, [kind |-> "signature",
                                     parts |-> TamperedParts(base[sig].parts, t)])

\* a request signed by a remote peer with its own key: it declares the header
\* list `declared`, signs the lines of the headers it sends and sends none of
\* the headers in `omitted`
Crafted(declared, omitted, body) ==
    LET all == [host |-> Text("remote.example"), date |-> strftime(0),
                digest |-> expected_digest(body)]
        sent == [n \in (DOMAIN all) \ omitted |-> all[n]]
        lines == VerifyLines(sent, "POST", SignPath, declared)
    IN Put(sent, "signature",
           signature_header(RemoteKeyId, declared, b64encode(rsa_sign(RemoteKey, lines))))

(***************************************************************************)
(* State                                                                   *)
(***************************************************************************)
NoSigned ==
    [status |-> "none", method |-> "POST", path |-> SignPath, headers |-> EmptyDict,
     body |-> None, out |-> EmptyDict]

NoVerified ==
    [status |-> "none", origin |-> "none", keyform |-> "none", tamper |-> "none",
     omitted |-> {}, digest_of |-> None, headers |-> EmptyDict, method |-> "POST",
     path |-> SignPath, body |-> None, answer |-> "none", now |-> 0,
     result |-> FALSE, raised |-> FALSE, at |-> "none"]

NoCall ==
    [pc |-> "idle", retry_count |-> 0, posts |-> 0, history |-> <<>>,
     success |-> <<>>, failed |-> <<>>, status_code |-> 0 - 1,
     error_message |-> "None"]

(***************************************************************************)
(* DeliveryQueue (federation/queue.py)                                     *)
(*                                                                         *)
(* Redis is the durable part: `store` holds the records under              *)
(* delivery:<id>, `index` is the sorted set delivery_queue (id -> score).  *)
(* The worker is the _process_queue_loop task: its position, the batch it  *)
(* is walking and the QueuedDelivery object it holds.  Times are minutes.  *)
(* The activity payload and created_at are not read by the queue and are   *)
(* left out of the records.                                                *)
(***************************************************************************)
\* DeliveryQueue(max_attempts=5)
max_attempts == 5
\* DeliveryQueue(batch_size=20)
batch_size == 20

\* delivery ids (the model follows one job) and their order as Redis members
Jobs == {"d1"}
JobRank(id) == IF id = "d1" THEN 1 ELSE 2

\* the recipients of a job
Recipients == {"https://b.example/inbox", "https://c.example/inbox"}

\* a field value that is a JSON string, a DeliveryStatus member, a datetime
Str(v) == [kind |-> "str", v |-> v]
Member(v) == [kind |-> "DeliveryStatus", v |-> v]
Datetime(t) == [kind |-> "datetime", v |-> t]

\* json.dumps(delivery.__dict__): the encoder raises TypeError on a value that
\* is a DeliveryStatus member or a datetime
json_dumps_delivery(delivery) ==
    IF \E f \in {"status", "next_attempt", "updated_at"} : delivery[f].kind # "str"
    THEN Raise
    ELSE Return(delivery)

\* QueuedDelivery(**json.loads(data)): the fields as the JSON text holds them
json_loads_delivery(data) == data

\* a record as it lies in Redis: JSON text, every field a string or a number
StoredDelivery(id, attempts) ==
    [id |-> id, recipients |-> Recipients,
     status |-> Str(IF attempts = 0 THEN "pending" ELSE "retrying"),
     attempts |-> attempts, next_attempt |-> Str(0), updated_at |-> Str(0),
     error |-> "None"]

\* redis.zadd / redis.zrem on the sorted set
zadd(index, id, score) == Put(index, id, score)
zrem(index, id) == Drop(index, id)

\* redis.zrangebyscore("delivery_queue", "-inf", now, start=0, num=n): the ids
\* whose score is at most now, by score and then by id, the first n of them
RECURSIVE ByScore(_, _)
ByScore(index, ids) ==
    IF ids = {} THEN <<>>
    ELSE LET first == CHOOSE i \in ids :
                        \A j \in ids :
                           \/ index[i] < index[j]
                           \/ index[i] = index[j] /\ JobRank(i) <= JobRank(j)
         IN <<first>> \o ByScore(index, ids \ {first})

zrangebyscore(index, now, num) ==
    LET all == ByScore(index, {i \in DOMAIN index : index[i] <= now})
    IN IF Len(all) <= num THEN all ELSE SubSeq(all, 1, num)

\* 2 ** n
RECURSIVE Pow2(_)
Pow2(n) == IF n = 0 THEN 1 ELSE 2 * Pow2(n - 1)

\* the worker task before its first poll, and after a restart of the process
FreshWorker == [pc |-> "poll", batch |-> <<>>, delivery |-> None]

\* what the model remembers of the worker's acts: the attempts a job's record
\* counted when the process started and the attempts started since, the status
\* the worker last gave the job's QueuedDelivery object, the last backoff it
\* scheduled for the job, and its last finished attempt (with the backoff that
\* was scheduled before it)
NoLast ==
    [id |-> "none", outcome |-> "none", attempts |-> 0, at |-> 0, failed |-> {},
     prev_wait |-> 0]

NoLog ==
    [base |-> [j \in Jobs |-> 0], started |-> [j \in Jobs |-> 0],
     marked |-> [j \in Jobs |-> "none"], wait |-> [j \in Jobs |-> 0],
     last |-> NoLast]

NoApi == [op |-> "none", id |-> "none", raised |-> FALSE, found |-> FALSE]

\* no RateLimiter constructed yet
NoLimiter == [made |-> FALSE]

\* a queue on an empty Redis database; `enqueued` is the list of the enqueue
\* calls made (id, time, priority, QueueError or not), `faults` the number of
\* Redis commands that have failed, `batch_size` the constructor's argument
EmptyQueue ==
    [store |-> EmptyDict, index |-> EmptyDict, worker |-> FreshWorker,
     log |-> NoLog, api |-> NoApi, enqueued |-> <<>>, faults |-> 0,
     batch_size |-> batch_size]

Init ==
    /\ active_keys = EmptyDict
    /\ utcnow = 0
    /\ test_now = NoTime
    /\ signed = NoSigned
    /\ verified = NoVerified
    /\ rate_state = EmptyDict
    /\ call = NoCall
    /\ queue = EmptyQueue
    /\ limiter = NoLimiter
    /\ rotation_task = None
    /\ keys_path = EmptyDict
    /\ key_call = NoKeyCall
    /\ fanout = NoFanout
    /\ signing = NoSigning
    /\ inflight = NoInflight

(***************************************************************************)
(* Actions of the signing and verification model                           *)
(***************************************************************************)
\* KeyManager.initialize on an empty keys directory: generate the first pair
initialize ==
    /\ rotation_task = None
    /\ LET loaded == _load_existing_keys(keys_path, utcnow)
           key_pair == NewKeyPair(utcnow)
       IN IF DOMAIN loaded = {}
          THEN /\ active_keys' = generate_key_pair(loaded, utcnow)
               /\ keys_path' = _save_key_pair(keys_path, key_pair, safe_path(key_pair))
          ELSE /\ active_keys' = loaded
               /\ keys_path' = keys_path
    /\ rotation_task' = [next_wake |-> utcnow, cancelled |-> FALSE, closed |-> FALSE]
    /\ key_call' = [NoKeyCall EXCEPT !.op = "initialize"]
    /\ UNCHANGED <<utcnow, test_now, signed, verified, rate_state, call, queue, limiter, fanout, signing, inflight>>

\* HTTPSignatureVerifier.set_test_time (the clock is moved before a call, not
\* after its verdict)
set_test_time ==
    /\ verified.status = "none"
    /\ \E t \in Times : t # test_now /\ test_now' = t
    /\ UNCHANGED <<active_keys, utcnow, signed, verified, rate_state, call, queue, limiter, rotation_task, keys_path, key_call, fanout, signing, inflight>>

\* a caller signs a request
SignRequest ==
    /\ signed.status = "none"
    /\ \E method \in SignMethods, headers \in CallerHeaders, body \in Bodies \cup {None} :
          LET r == sign_request(method, SignPath, headers, body, active_keys, Now)
          IN signed' = [status |-> IF r.ok THEN "ok" ELSE "raised",
                        method |-> method, path |-> SignPath, headers |-> headers,
                        body |-> body, out |-> IF r.ok THEN r.value ELSE EmptyDict]
    /\ UNCHANGED <<active_keys, utcnow, test_now, verified, rate_state, call, queue, limiter, rotation_task, keys_path, key_call, fanout, signing, inflight>>

VerifiedAs(origin, keyform, tamper, omitted, digest_of, headers, method, path, body, answer) ==
    LET r == verify_request(headers, method, path, body, answer, active_keys)
    IN [status |-> "done", origin |-> origin, keyform |-> keyform, tamper |-> tamper,
        omitted |-> omitted, digest_of |-> digest_of, headers |-> headers,
        method |-> method, path |-> path,
        body |-> body, answer |-> answer, now |-> Now,
        result |-> r.result, raised |-> r.raised, at |-> r.at]

\* the verifier is handed the request that sign_request signed, possibly changed
VerifyDelivered ==
    /\ signed.status = "ok"
    /\ verified.status = "none"
    /\ \E keyform \in {"returned", "lowercased"}, tamper \in Tampers,
          body \in Bodies \cup {None}, answer \in {"key", "none", "raise"} :
          /\ answer # "key" => tamper = "none"
          /\ \E method \in Methods, path \in Paths :
                /\ tamper # "none" => method = signed.method /\ path = signed.path
                /\ verified' = VerifiedAs("signed", keyform, tamper, {}, signed.body,
                                   Delivered(signed.out, keyform, tamper),
                                   method, path, body, answer)
    /\ UNCHANGED <<active_keys, utcnow, test_now, signed, rate_state, call, queue, limiter, rotation_task, keys_path, key_call, fanout, signing, inflight>>

\* the verifier is handed a request that a remote peer signed
VerifyCrafted ==
    /\ signed.status = "none"
    /\ verified.status = "none"
    /\ \E omitted \in SUBSET {"date", "digest"}, digest_of \in Bodies,
          method \in Methods, path \in Paths, body \in Bodies \cup {None},
          answer \in {"key", "none"} :
          verified' = VerifiedAs("remote", "lowercased", "none", omitted, digest_of,
                          Crafted(headers_to_sign, omitted, digest_of),
                          method, path, body, answer)
    /\ UNCHANGED <<active_keys, utcnow, test_now, signed, rate_state, call, queue, limiter, rotation_task, keys_path, key_call, fanout, signing, inflight>>

\* the next request is looked at
NextRequest ==
    /\ signed.status = "raised" \/ verified.status = "done"
    /\ signed' = NoSigned
    /\ verified' = NoVerified
    /\ UNCHANGED <<active_keys, utcnow, test_now, rate_state, call, queue, limiter, rotation_task, keys_path, key_call, fanout, signing, inflight>>

SigNext ==
    \/ initialize
    \/ set_test_time
    \/ SignRequest
    \/ VerifyDelivered
    \/ VerifyCrafted
    \/ NextRequest

SpecSig == Init /\ [][SigNext]_vars

(***************************************************************************)
(* Properties of sign_request / verify_request                             *)
(***************************************************************************)
\* the verifier was handed the request of the last sign_request call
FromSigned == verified.status = "done" /\ verified.origin = "signed"

\* the Signature header reached the verifier as it was emitted
SignatureIntact ==
    verified.tamper \notin SignatureTampers \cup {"drop_signature"}

\* C1: a request signed by sign_request with the active key verifies when
\* verify_request is called with the returned headers and the same method, path
\* and body, the public key of the emitted keyId being resolvable
C1_RoundTrip ==
    ( /\ FromSigned
      /\ verified.keyform = "returned"
      /\ verified.tamper = "none"
      /\ verified.method = signed.method
      /\ verified.path = signed.path
      /\ verified.body = signed.body
      /\ verified.answer = "key" )
    => verified.result

\* C2 as stated: verify_request returns false whenever the method, the path, the
\* body or the value of a declared header differs from what was signed
C2_AnyChangeRejected ==
    ( /\ FromSigned
      /\ SignatureIntact
      /\ \/ verified.method # signed.method
         \/ verified.path # signed.path
         \/ verified.body # None /\ verified.body # signed.body
         \/ verified.tamper \in HeaderTampers )
    => ~verified.result

\* C2 amended: verify_request returns false whenever the method differs other
\* than in letter case, the path differs, the body handed to it differs from the
\* signed body, or the value of a declared header differs from what was signed
C2_TamperRejected ==
    ( /\ FromSigned
      /\ SignatureIntact
      /\ \/ lower(verified.method) # lower(signed.method)
         \/ verified.path # signed.path
         \/ verified.body # None /\ verified.body # signed.body
         \/ verified.tamper \in HeaderTampers )
    => ~verified.result

\* a changed header value was caught by the signature check itself
C2_Witness ==
    /\ FromSigned
    /\ verified.keyform = "lowercased"
    /\ verified.tamper = "host"
    /\ verified.answer = "key"
    /\ verified.body = signed.body
    /\ verified.at = "invalid_signature"
    /\ ~verified.result

\* C3: verify_request returns false for a request whose date header is more
\* than 5 minutes before or after the verifier's current time
C3_ClockSkew ==
    ( /\ verified.status = "done"
      /\ "date" \in DOMAIN verified.headers
      /\ verified.headers["date"].kind = "date"
      /\ ~_verify_date(verified.headers["date"], verified.now) )
    => ~verified.result

\* C4: verify_request returns false whenever a header declared in the Signature
\* header (other than (request-target)) is absent from the request headers
C4_DeclaredHeaderAbsent ==
    ( /\ verified.status = "done"
      /\ "signature" \in DOMAIN verified.headers
      /\ LET sig_parts == ParseSignature(verified.headers["signature"].parts)
         IN /\ "headers" \in DOMAIN sig_parts
            /\ \E i \in 1..Len(sig_parts["headers"].names) :
                  /\ sig_parts["headers"].names[i] # "(request-target)"
                  /\ sig_parts["headers"].names[i] \notin DOMAIN verified.headers )
    => ~verified.result

\* C5: given a body and a digest header, verify_request returns false unless the
\* header is the SHA-256 digest of that body; a request presenting the digest of
\* body B together with another body B' is rejected
C5_DigestBinding ==
    ( /\ verified.status = "done"
      /\ verified.body # None
      /\ "digest" \in DOMAIN verified.headers )
    => /\ verified.result =>
             verified.headers["digest"]
                = Sha256Header(json_dumps(verified.body, ", ", ": "))
       /\ ( /\ verified.digest_of # None
            /\ verified.digest_of # verified.body
            /\ verified.headers["digest"] \in
                  {_generate_digest(verified.digest_of),
                   Sha256Header(json_dumps(verified.digest_of, ", ", ": "))} )
          => ~verified.result

\* a validly signed request carrying the digest of B is verified with body B'
\* and rejected at the digest comparison
C5_Witness ==
    /\ verified.status = "done"
    /\ verified.origin = "remote"
    /\ verified.answer = "key"
    /\ verified.omitted = {}
    /\ verified.method = "POST" /\ verified.path = SignPath
    /\ verified.body # None
    /\ verified.digest_of # verified.body
    /\ verified.at = "digest"
    /\ ~verified.result

\* the Signature header handed to the verifier is missing or malformed, lacks a
\* required component, names a key that does not resolve, or carries bytes that
\* do not decode
Malformed ==
    \/ "signature" \notin DOMAIN verified.headers
    \/ verified.tamper \in {"sig_drop_keyId", "sig_drop_headers", "sig_drop_signature",
                            "sig_empty_keyId", "sig_junk", "sig_bad_b64",
                            "sig_unknown_key"}
    \/ verified.answer \in {"none", "raise"}

\* C6: verify_request returns a boolean and never raises; a missing or malformed
\* Signature header, a missing component, an unresolvable key and undecodable
\* signature bytes each yield false
C6_NeverRaises ==
    verified.status = "done"
    => /\ verified.result \in BOOLEAN
       /\ ~verified.raised
       /\ Malformed => ~verified.result

\* base64 decoding failed inside the try block and the call returned false
C6_Witness ==
    /\ verified.status = "done"
    /\ verified.tamper = "sig_bad_b64"
    /\ verified.at = "b64decode_raised"
    /\ ~verified.raised
    /\ ~verified.result

(***************************************************************************)
(* RateLimiter                                                             *)
(***************************************************************************)
\* RateLimitState(remaining=default_limit.requests, reset=now + period, limit=...)
FreshState(now) ==
    [remaining |-> default_requests, reset |-> now + default_period,
     limit |-> default_requests]

\* RateLimiter._get_state: the cached state, created and stored on a miss (the
\* cache's one-hour TTL lies beyond the clock of the model)
_get_state(states, domain, now) ==
    IF domain \in DOMAIN states THEN states ELSE Put(states, domain, FreshState(now))

\* RateLimiter.check_rate_limit: the answer and the states it leaves
check_rate_limit(states, domain, now) ==
    LET s1 == _get_state(states, domain, now)
        state == s1[domain]
    IN IF now >= state.reset
       THEN [allowed |-> TRUE, states |-> Put(s1, domain, FreshState(now))]
       ELSE IF state.remaining <= 0
       THEN [allowed |-> FALSE, states |-> s1]
       ELSE [allowed |-> TRUE,
             states |-> Put(s1, domain, [state EXCEPT !.remaining = @ - 1])]

\* RateLimiter.get_wait_time
get_wait_time(states, domain, now) ==
    LET state == _get_state(states, domain, now)[domain]
    IN IF state.remaining > 0 THEN 0
       ELSE IF state.reset - now > 0 THEN state.reset - now ELSE 0

\* the X-RateLimit-Remaining / -Reset / -Limit headers of a response: absent,
\* three integers, or present with a value int() does not parse (an ISO 8601
\* reset time, say)
RateHeaders ==
    { [present |-> FALSE, parses |-> TRUE, remaining |-> 0, reset |-> 0, limit |-> 0],
      [present |-> TRUE, parses |-> TRUE, remaining |-> 0, reset |-> 1, limit |-> 2],
      [present |-> TRUE, parses |-> FALSE, remaining |-> 0, reset |-> 0, limit |-> 0] }

\* RateLimiter.update_rate_limit: int() raises ValueError on a value it cannot parse
update_rate_limit(states, domain, headers) ==
    IF ~headers.present THEN Return(states)
    ELSE IF ~headers.parses THEN Raise
    ELSE Return(Put(states, domain,
                    [remaining |-> headers.remaining, reset |-> headers.reset,
                     limit |-> headers.limit]))

(***************************************************************************)
(* ActivityDelivery.deliver_to_inbox                                       *)
(***************************************************************************)
InboxUrl == "https://b.example/inbox"
InboxDomain == "b.example"
InboxPath == "/inbox"
Activity == [a |-> "1"]

Statuses == {200, 201, 202, 404, 429, 500, 503}

\* what one POST meets: a timeout, a connection error, or a response with its
\* status, Retry-After header (absent, an integer, an HTTP date), rate-limit
\* headers and a body that can or cannot be read; a header or body that the
\* code does not look at for the status is left at its default
NoRateHeaders ==
    [present |-> FALSE, parses |-> TRUE, remaining |-> 0, reset |-> 0, limit |-> 0]

NoResponse ==
    [status |-> NoStatus, retry_after |-> "absent", rate |-> NoRateHeaders,
     text_ok |-> TRUE, text |-> ""]

Response(st, ra, rh, ok) ==
    [status |-> st, retry_after |-> ra, rate |-> rh, text_ok |-> ok,
     text |-> "body of the response"]

Outcomes ==
    { [post |-> "timeout", resp |-> NoResponse], [post |-> "error", resp |-> NoResponse] }
    \cup
    { [post |-> "response", resp |-> Response(st, ra, rh, ok)] :
        st \in Statuses, ra \in {"absent", "int", "date"}, rh \in RateHeaders,
        ok \in BOOLEAN }

\* the outcomes with the fields set that the code reads for the status: the
\* Retry-After header of a 429 or 5xx response, the body of a 4xx or 5xx response
Relevant(o) ==
    \/ o.post # "response"
    \/ /\ o.resp.status < 400 => o.resp.text_ok
       /\ o.resp.status = 429 => o.resp.text_ok
       /\ (o.resp.status < 429 \/ o.resp.status = NoStatus) => o.resp.retry_after = "absent"

\* the fields of DeliveryResult
ResultFields == {"success", "failed", "status_code", "error_message", "retry_after"}

\* DeliveryResult() of one invocation, with what the model remembers of the
\* call: the retry_count argument, the POSTs issued and the statuses received
NewCall ==
    [pc |-> "running", retry_count |-> 0, posts |-> 0, history |-> <<>>,
     success |-> <<>>, failed |-> <<>>, status_code |-> NoStatus,
     error_message |-> "None"]

\* the except clauses: result.failed.append(inbox_url); result.error_message = ...
Failed(c, message) ==
    [c EXCEPT !.pc = "done", !.failed = Append(@, InboxUrl), !.error_message = message]

\* response.status == 429 or (response.status >= 500 and retry_count < max_retries)
ShouldRetry(status, retry_count) ==
    status = 429 \/ (status >= 500 /\ retry_count < max_retries)

\* the part of deliver_to_inbox inside `async with session.post(...) as response`,
\* after update_rate_limit
OnResponse(c, resp) ==
    IF resp.status \in {200, 201, 202}
    THEN [c EXCEPT !.pc = "done", !.success = Append(@, InboxUrl),
                   !.status_code = resp.status]
    ELSE IF ShouldRetry(resp.status, c.retry_count)
    THEN IF resp.retry_after = "date"
         THEN Failed(c, "ValueError: Retry-After")
         ELSE [c EXCEPT !.retry_count = @ + 1]
    ELSE LET r == [c EXCEPT !.failed = Append(@, InboxUrl),
                            !.status_code = resp.status]
         IN IF resp.text_ok
            THEN [r EXCEPT !.pc = "done", !.error_message = resp.text]
            ELSE Failed(r, "ClientPayloadError")

\* one invocation of deliver_to_inbox up to its return or its recursive call:
\* the call record and the rate-limit states it leaves
Invocation(c, keys, states, now, outcome) ==
    LET gate == check_rate_limit(states, InboxDomain, now)
        s1 == IF gate.allowed THEN gate.states
              ELSE _get_state(gate.states, InboxDomain, now)
        headers == [Host |-> Text(InboxDomain)]
                   @@ ("Content-Type" :> Text("application/activity+json"))
                   @@ ("User-Agent" :> Text("PyFed/1.0"))
                   @@ ("Accept" :> Text("application/activity+json"))
        signed_headers == sign_request("POST", InboxPath, headers, Activity, keys, now)
        posted == [c EXCEPT !.posts = @ + 1]
        updated == update_rate_limit(s1, InboxDomain, outcome.resp.rate)
    IN IF ~signed_headers.ok
       THEN [call |-> Failed(c, "SignatureError"), states |-> s1]
       ELSE IF outcome.post = "timeout"
       THEN [call |-> Failed(posted, "Delivery timeout"), states |-> s1]
       ELSE IF outcome.post = "error"
       THEN [call |-> Failed(posted, "ClientConnectionError"), states |-> s1]
       ELSE LET got == [posted EXCEPT !.history = Append(@, outcome.resp.status)]
            IN IF ~updated.ok
               THEN [call |-> Failed(got, "ValueError: X-RateLimit"), states |-> s1]
               ELSE [call |-> OnResponse(got, outcome.resp), states |-> updated.value]

(***************************************************************************)
(* Actions of the delivery model                                           *)
(***************************************************************************)
\* a minute passes (time is followed from start-up on, and while a call runs)
Tick ==
    /\ DOMAIN active_keys # {}
    /\ call.pc \in {"idle", "running"}
    /\ utcnow < MaxTime
    /\ utcnow' = utcnow + 1
    /\ UNCHANGED <<active_keys, test_now, signed, verified, rate_state, call, queue, limiter, rotation_task, keys_path, key_call, fanout, signing, inflight>>

\* deliver_to_inbox(activity, inbox_url) is called
StartDelivery ==
    /\ call.pc = "idle"
    /\ call' = NewCall
    /\ UNCHANGED <<active_keys, utcnow, test_now, signed, verified, rate_state, queue, limiter, rotation_task, keys_path, key_call, fanout, signing, inflight>>

\* one invocation of deliver_to_inbox runs: it returns, or it sleeps and calls
\* itself with retry_count + 1 (the model follows the recursion to MaxDepth)
DeliverAttempt ==
    /\ call.pc = "running"
    /\ call.retry_count <= MaxDepth
    /\ \E outcome \in {o \in Outcomes : Relevant(o)} :
          LET r == Invocation(call, active_keys, rate_state, Now, outcome)
          IN /\ call' = r.call
             /\ rate_state' = r.states
    /\ UNCHANGED <<active_keys, utcnow, test_now, signed, verified, queue, limiter, rotation_task, keys_path, key_call, fanout, signing, inflight>>

DeliveryNext ==
    \/ initialize
    \/ Tick
    \/ StartDelivery
    \/ DeliverAttempt

SpecDelivery == Init /\ [][DeliveryNext]_vars

(***************************************************************************)
(* Properties of deliver_to_inbox                                          *)
(***************************************************************************)
Last(seq) == seq[Len(seq)]

\* every POST of the call was answered by a response
AllAnswered == call.posts = Len(call.history) /\ call.history # <<>>

InSuccess == \E i \in 1..Len(call.success) : call.success[i] = InboxUrl
InFailed == \E i \in 1..Len(call.failed) : call.failed[i] = InboxUrl

\* C7: deliver_to_inbox issues at most max_retries + 1 POSTs to the inbox,
\* whether the remote keeps answering 429 or 5xx
C7_BoundedRetry == call.posts <= max_retries + 1

\* C8: 503 on attempts 1..k (k <= max_retries) and 202 on attempt k+1 give
\* success with the retry count k recorded in the result; a call to which the
\* remote answers 503 ends as a failure only after more than max_retries attempts
C8_RetryThenSuccess ==
    ( /\ call.pc = "done"
      /\ AllAnswered
      /\ \A i \in 1..(Len(call.history) - 1) : call.history[i] = 503 )
    => /\ ( /\ Last(call.history) = 202
            /\ Len(call.history) - 1 >= 1
            /\ Len(call.history) - 1 <= max_retries )
          => /\ call.success = <<InboxUrl>>
             /\ call.failed = <<>>
             /\ "retry_count" \in ResultFields
             /\ call.retry_count = Len(call.history) - 1
       /\ Last(call.history) = 503
          => /\ Len(call.history) > max_retries
             /\ InFailed

\* the body of the last response could not be read
BodyUnreadable == call.error_message = "ClientPayloadError"

\* C9: a 4xx response other than 429 ends the call at once, with the inbox in
\* failed, status_code the status and error_message the response body (for a
\* response whose body can be read)
C9_ClientErrorFinal ==
    ( /\ call.history # <<>>
      /\ Last(call.history) >= 400
      /\ Last(call.history) < 500
      /\ Last(call.history) # 429 )
    => /\ call.pc = "done"
       /\ (AllAnswered /\ ~BodyUnreadable)
          => /\ call.failed = <<InboxUrl>>
             /\ call.success = <<>>
             /\ call.status_code = Last(call.history)
             /\ call.error_message = "body of the response"

\* C10: the inbox is in success if and only if the final response status was
\* 200, 201 or 202 (status_code set to it, failed empty); otherwise it is in
\* failed with a status code or an error message; never both, never neither
C10_SuccessIffAccepted ==
    call.pc = "done"
    => /\ InSuccess <=> (AllAnswered /\ Last(call.history) \in {200, 201, 202})
       /\ InSuccess => call.status_code = Last(call.history) /\ call.failed = <<>>
       /\ ~InSuccess =>
             /\ InFailed
             /\ call.status_code # NoStatus \/ call.error_message # "None"
       /\ ~(InSuccess /\ InFailed)
       /\ InSuccess \/ InFailed

(***************************************************************************)
(* DeliveryQueue: operations                                               *)
(***************************************************************************)
\* the clock of the queue model runs from 0 to MaxQueueTime minutes
MaxQueueTime == 4
\* the count of attempts started for a job is followed up to MaxStarted
MaxStarted == 6

\* enqueue up to its return or its QueueError: the record is built with a
\* DeliveryStatus member and datetimes, serialised, stored, and the id is added
\* to the index at now + (9 - priority) * 10 seconds
enqueue(q, now, delivery_id, recipients, priority) ==
    LET delivery == [id |-> delivery_id, recipients |-> recipients,
                     status |-> Member("pending"), attempts |-> 0,
                     next_attempt |-> Datetime(now), updated_at |-> Datetime(now),
                     error |-> "None"]
        data == json_dumps_delivery(delivery)
        score == now + ((9 - priority) * 10) \div 60
    IN IF ~data.ok
       THEN [raised |-> TRUE, queue |-> q]
       ELSE [raised |-> FALSE,
             queue |-> [q EXCEPT !.store = Put(@, delivery_id, data.value),
                                 !.index = zadd(@, delivery_id, score)]]

\* get_status: the record under delivery:<id>, or None
get_status(q, delivery_id) ==
    IF delivery_id \in DOMAIN q.store
    THEN json_loads_delivery(q.store[delivery_id])
    ELSE None

\* delivery_service.deliver_activity(activity, recipients): it raises, or
\* returns a DeliveryResult whose success lists the recipients delivered to
DeliverOutcomes ==
    {[raised |-> TRUE, success |-> {}]}
    \cup {[raised |-> FALSE, success |-> S] : S \in SUBSET Recipients}

OutcomeKind(outcome) ==
    IF outcome.raised THEN "exception"
    ELSE IF outcome.success = Recipients THEN "success"
    ELSE IF outcome.success # {} THEN "partial"
    ELSE "failure"

\* _process_delivery from the call of deliver_activity to the end of the inner
\* try statement: the QueuedDelivery object and the index it leaves
Attempted(delivery, index, outcome, now) ==
    IF outcome.raised
    THEN [delivery |-> [delivery EXCEPT !.status = Member("failed"),
                                        !.error = "exception"],
          index |-> index]
    ELSE IF outcome.success # {}
    THEN [delivery |-> [delivery EXCEPT !.status = Member("completed")],
          index |-> index]
    ELSE IF delivery.attempts < max_attempts
    THEN LET next_attempt == now + Pow2(delivery.attempts)
         IN [delivery |-> [delivery EXCEPT !.status = Member("retrying"),
                                           !.error = "error_message",
                                           !.next_attempt = Datetime(next_attempt)],
             index |-> zadd(index, delivery.id, next_attempt)]
    ELSE [delivery |-> [delivery EXCEPT !.status = Member("failed"),
                                        !.error = "error_message"],
          index |-> index]

\* a variant that removes a finished job from the index before it writes the
\* record
Recorded_RemovedBeforeWrite(store, index, delivery) ==
    LET data == json_dumps_delivery(delivery)
        index1 == IF delivery.status.v \in {"completed", "failed"}
                  THEN zrem(index, delivery.id)
                  ELSE index
    IN [store |-> IF data.ok THEN Put(store, delivery.id, data.value) ELSE store,
        index |-> index1]

\* the record update and the removal from the index that end _process_delivery;
\* an exception of json.dumps is caught by the outer except clause, which logs
Recorded(store, index, delivery) ==
    LET data == json_dumps_delivery(delivery)
    IN IF ~data.ok
       THEN [store |-> store, index |-> index]
       ELSE [store |-> Put(store, delivery.id, data.value),
             index |-> IF delivery.status.v \in {"completed", "failed"}
                       THEN zrem(index, delivery.id)
                       ELSE index]

\* the Redis databases a process may find at its start: job records in the JSON
\* form that _process_delivery and get_status read, each with its index entry
SeedAttempts == {0, max_attempts - 1}

SeededStores ==
    UNION { { [j \in S |-> StoredDelivery(j, a[j])] : a \in [S -> SeedAttempts] } :
            S \in SUBSET Jobs }

QueueInit ==
    /\ active_keys = EmptyDict
    /\ utcnow = 0
    /\ test_now = NoTime
    /\ signed = NoSigned
    /\ verified = NoVerified
    /\ rate_state = EmptyDict
    /\ call = NoCall
    /\ limiter = NoLimiter
    /\ rotation_task = None
    /\ keys_path = EmptyDict
    /\ key_call = NoKeyCall
    /\ fanout = NoFanout
    /\ signing = NoSigning
    /\ inflight = NoInflight
    /\ \E s \in SeededStores :
          queue = [EmptyQueue EXCEPT
                     !.store = s,
                     !.index = [j \in DOMAIN s |-> 0],
                     !.log.base = [j \in Jobs |-> IF j \in DOMAIN s
                                                  THEN s[j].attempts ELSE 0]]

Others == <<active_keys, test_now, signed, verified, rate_state, call, limiter, rotation_task, keys_path, key_call, fanout, signing, inflight>>

\* a minute passes
QueueTick ==
    /\ utcnow < MaxQueueTime
    /\ utcnow' = utcnow + 1
    /\ UNCHANGED <<Others, queue>>

\* a caller enqueues an activity
Enqueue ==
    /\ \E id \in Jobs \ DOMAIN queue.store, priority \in {0, 9} :
          LET r == enqueue(queue, utcnow, id, Recipients, priority)
          IN queue' = [r.queue EXCEPT !.api = [op |-> "enqueue", id |-> id,
                                                raised |-> r.raised, found |-> FALSE]]
    /\ UNCHANGED <<Others, utcnow>>

\* a caller reads a record
GetStatus ==
    /\ \E id \in Jobs :
          queue' = [queue EXCEPT !.api = [op |-> "get_status", id |-> id,
                                          raised |-> FALSE,
                                          found |-> get_status(queue, id) # None]]
    /\ UNCHANGED <<Others, utcnow>>

\* _process_queue_loop: the worker fetches the batch of due ids (with none due
\* it sleeps and polls again)
_process_queue_loop ==
    /\ queue.worker.pc = "poll"
    /\ LET delivery_ids == zrangebyscore(queue.index, utcnow, queue.batch_size)
       IN /\ delivery_ids # <<>>
          /\ queue' = [queue EXCEPT !.worker.pc = "batch",
                                    !.worker.batch = delivery_ids]
    /\ UNCHANGED <<Others, utcnow>>

\* the position of the worker after the job at the head of its batch
AfterHead(worker) ==
    [pc |-> IF Tail(worker.batch) = <<>> THEN "poll" ELSE "batch",
     batch |-> Tail(worker.batch), delivery |-> None]

\* _process_delivery, first part: the record is read and the object is set
\* IN_PROGRESS with attempts + 1; a missing record ends the call
BeginDelivery ==
    /\ queue.worker.pc = "batch"
    /\ LET delivery_id == Head(queue.worker.batch)
       IN IF delivery_id \notin DOMAIN queue.store
          THEN queue' = [queue EXCEPT !.worker = AfterHead(@)]
          ELSE LET loaded == json_loads_delivery(queue.store[delivery_id])
                   delivery == [loaded EXCEPT !.status = Member("in_progress"),
                                              !.attempts = @ + 1,
                                              !.updated_at = Datetime(utcnow)]
               IN queue' = [queue EXCEPT
                     !.worker.pc = "delivering",
                     !.worker.delivery = delivery,
                     !.log.started[delivery_id] =
                         IF @ < MaxStarted THEN @ + 1 ELSE @,
                     !.log.marked[delivery_id] = "in_progress"]
    /\ UNCHANGED <<Others, utcnow>>

\* _process_delivery, second part: the attempt, the reschedule, the record
\* update and the removal from the index
FinishDelivery ==
    /\ queue.worker.pc = "delivering"
    /\ \E outcome \in DeliverOutcomes :
          LET d == queue.worker.delivery
              a == Attempted(d, queue.index, outcome, utcnow)
              r == Recorded(queue.store, a.index, a.delivery)
          IN queue' = [queue EXCEPT
                !.store = r.store,
                !.index = r.index,
                !.worker = AfterHead(@),
                !.log.marked[d.id] = a.delivery.status.v,
                !.log.wait[d.id] = IF a.delivery.status.v = "retrying"
                                   THEN a.delivery.next_attempt.v - utcnow ELSE 0,
                !.log.last = [id |-> d.id, outcome |-> OutcomeKind(outcome),
                              attempts |-> d.attempts, at |-> utcnow,
                              failed |-> Recipients \ outcome.success,
                              prev_wait |-> queue.log.wait[d.id]]]
    /\ UNCHANGED <<Others, utcnow>>

\* the process stops and is started again: the worker task starts anew on the
\* Redis database as it was left
Restart ==
    /\ queue.worker # FreshWorker
    /\ queue' = [queue EXCEPT !.worker = FreshWorker,
                              !.api = [op |-> "restart", id |-> "none",
                                       raised |-> FALSE, found |-> FALSE]]
    /\ UNCHANGED <<Others, utcnow>>

QueueNext ==
    \/ QueueTick
    \/ Enqueue
    \/ GetStatus
    \/ _process_queue_loop
    \/ BeginDelivery
    \/ FinishDelivery
    \/ Restart

SpecQueue == QueueInit /\ [][QueueNext]_vars

\* the same operations with the worker scheduled fairly and time passing
SpecQueueFair ==
    /\ QueueInit
    /\ [][QueueNext]_vars
    /\ WF_vars(_process_queue_loop)
    /\ WF_vars(BeginDelivery)
    /\ WF_vars(FinishDelivery)
    /\ WF_vars(QueueTick)

(***************************************************************************)
(* Properties of the DeliveryQueue                                         *)
(***************************************************************************)
\* the worker holds a QueuedDelivery object: an attempt is in progress
Holding == queue.worker.pc = "delivering"
Held == queue.worker.delivery

\* the status of a job as the worker last set it, before that as stored
Status(j) ==
    IF queue.log.marked[j] # "none" THEN queue.log.marked[j]
    ELSE IF j \in DOMAIN queue.store THEN queue.store[j].status.v
    ELSE "absent"

\* the last attempt that finished was a failure of job j: deliver_activity
\* reported no success or raised; and no new attempt of j has begun since
LastFailed(j) ==
    /\ queue.log.last.id = j
    /\ queue.log.last.outcome \in {"failure", "exception"}

AllowedMoves ==
    { <<"absent", "pending">>, <<"pending", "in_progress">>,
      <<"in_progress", "completed">>, <<"in_progress", "retrying">>,
      <<"in_progress", "failed">>, <<"retrying", "in_progress">> }

cache_ttl == 1
\* the clock of the limiter runs from 0 to MaxLimiterTime hours
MaxLimiterTime == 4
\* the check_rate_limit calls that are followed
MaxCalls == 4

\* RateLimit(requests=N, period=P) of the limiters that are made
Requests == {1, 2}
Periods == {1, 2, 3}
Domains == {"b.example"}

\* MemoryCache.get: a missing key and an expired entry (which is deleted) give None
MemoryCache_get(l, key) ==
    IF key \notin DOMAIN l.data
    THEN [value |-> None, l |-> l]
    ELSE IF l.now > l.expires[key]
    THEN [value |-> None,
          l |-> [l EXCEPT !.data = Drop(@, key), !.expires = Drop(@, key)]]
    ELSE [value |-> l.data[key], l |-> l]

\* MemoryCache.set
MemoryCache_set(l, key, value) ==
    [l EXCEPT !.data = Put(@, key, value), !.expires = Put(@, key, l.now + l.ttl)]

\* RateLimitState of a new window of the limiter
NewWindow(l) ==
    [remaining |-> l.requests, reset |-> l.now + l.period, limit |-> l.requests]

\* RateLimiter._get_state
RateLimiter_get_state(l, domain) ==
    LET got == MemoryCache_get(l, domain)
    IN IF got.value = None
       THEN [state |-> NewWindow(got.l),
             l |-> MemoryCache_set(got.l, domain, NewWindow(got.l))]
       ELSE [state |-> got.value, l |-> got.l]

\* RateLimiter.check_rate_limit
RateLimiter_check_rate_limit(l, domain) ==
    LET g == RateLimiter_get_state(l, domain)
    IN IF g.l.now >= g.state.reset
       THEN [allowed |-> TRUE, l |-> MemoryCache_set(g.l, domain, NewWindow(g.l))]
       ELSE IF g.state.remaining <= 0
       THEN [allowed |-> FALSE, l |-> g.l]
       ELSE [allowed |-> TRUE,
             l |-> MemoryCache_set(g.l, domain,
                                   [g.state EXCEPT !.remaining = @ - 1])]

\* RateLimiter.get_wait_time
RateLimiter_get_wait_time(l, domain) ==
    LET g == RateLimiter_get_state(l, domain)
        wait_time == g.state.reset - g.l.now
    IN [wait |-> IF g.state.remaining > 0 THEN 0
                 ELSE IF wait_time > 0 THEN wait_time ELSE 0,
        l |-> g.l]

\* the X-RateLimit-* headers a remote sends: three integers, or not all three
LimitHeaders(now) ==
    {[present |-> FALSE, remaining |-> 0, reset |-> 0, limit |-> 0]}
    \cup {[present |-> TRUE, remaining |-> r, reset |-> now + 1, limit |-> 2] :
            r \in {0 - 1, 0, 1}}

\* RateLimiter.update_rate_limit
RateLimiter_update_rate_limit(l, domain, headers) ==
    IF headers.present
    THEN MemoryCache_set(l, domain,
                         [remaining |-> headers.remaining, reset |-> headers.reset,
                          limit |-> headers.limit])
    ELSE l

\* no update_rate_limit call followed so far (`flip` changes with every call)
NoUpdate ==
    [flip |-> FALSE, domain |-> "", raised |-> FALSE,
     headers |-> [remaining |-> None, reset |-> None, limit |-> None]]

\* a new RateLimiter(default_limit=RateLimit(requests, period)), its cache
\* empty, and the log of the calls made on it: when the domain's state was
\* first created, the answers of check_rate_limit with their times, and
\* whether update_rate_limit has overwritten the state
NewLimiter(requests, period) ==
    [made |-> TRUE, requests |-> requests, period |-> period, ttl |-> cache_ttl,
     now |-> 0, data |-> EmptyDict, expires |-> EmptyDict,
     first |-> NoTime, answers |-> <<>>, updated |-> FALSE, last |-> NoUpdate]

Seen(l) == IF l.first = NoTime THEN [l EXCEPT !.first = l.now] ELSE l

Rest == <<active_keys, utcnow, test_now, signed, verified, rate_state, call, queue, rotation_task, keys_path, key_call, fanout, signing, inflight>>

MakeLimiter ==
    /\ ~limiter.made
    /\ \E n \in Requests, p \in Periods : limiter' = NewLimiter(n, p)
    /\ UNCHANGED Rest

\* an hour passes
LimiterTick ==
    /\ limiter.made
    /\ limiter.now < MaxLimiterTime
    /\ limiter' = [limiter EXCEPT !.now = @ + 1]
    /\ UNCHANGED Rest

CheckRateLimit ==
    /\ limiter.made
    /\ Len(limiter.answers) < MaxCalls
    /\ \E domain \in Domains :
          LET r == RateLimiter_check_rate_limit(limiter, domain)
          IN limiter' = [Seen(r.l) EXCEPT
                           !.answers = Append(@, [t |-> limiter.now,
                                                  ok |-> r.allowed])]
    /\ UNCHANGED Rest

GetWaitTime ==
    /\ limiter.made
    /\ \E domain \in Domains :
          limiter' = Seen(RateLimiter_get_wait_time(limiter, domain).l)
    /\ UNCHANGED Rest

UpdateRateLimit ==
    /\ limiter.made
    /\ \E domain \in Domains, headers \in LimitHeaders(limiter.now) :
          limiter' = [RateLimiter_update_rate_limit(limiter, domain, headers)
                         EXCEPT !.updated = @ \/ headers.present]
    /\ UNCHANGED Rest

LimiterNext ==
    \/ MakeLimiter
    \/ LimiterTick
    \/ CheckRateLimit
    \/ GetWaitTime
    \/ UpdateRateLimit

SpecLimiter == Init /\ [][LimiterNext]_vars

\* C18: on a domain with no prior state and no state from response headers,
\* of the check_rate_limit calls within the period exactly the first N return
\* true, and the first call once the period has passed returns true
C18_WindowOfN ==
    (limiter.made /\ ~limiter.updated)
    => \A i \in 1..Len(limiter.answers) :
          LET a == limiter.answers[i]
              window_end == limiter.first + limiter.period
          IN /\ a.t < window_end => (a.ok <=> i <= limiter.requests)
             /\ ( /\ a.t >= window_end
                  /\ i > 1 => limiter.answers[i - 1].t < window_end )
                => a.ok

\* C19: the stored remaining of every domain is >= 0
C19_RemainingNotNegative ==
    limiter.made => \A d \in DOMAIN limiter.data : limiter.data[d].remaining >= 0

(***************************************************************************)
(* KeyManager: rotation (security/key_management.py)                       *)
(***************************************************************************)
\* the clock of the key model runs for MaxKeyDays days
MaxKeyDays == 34
\* rotate_keys is called by hand while keys_path holds the files of fewer keys
MaxKeys == 2

\* KeyManager.rotate_keys: a new pair, then the keys that expired more than
\* key_overlap days ago leave the active set
rotate_keys(keys, now) ==
    LET with_new == generate_key_pair(keys, now)
        expired == {k \in DOMAIN with_new :
                      with_new[k].expires_at < now - key_overlap * Day}
    IN [k \in (DOMAIN with_new) \ expired |-> with_new[k]]

\* _archive_key_pair for each key pair of a set
RECURSIVE ArchiveAll(_, _)
ArchiveAll(files, key_pairs) ==
    IF key_pairs = {} THEN files
    ELSE LET key_pair == CHOOSE kp \in key_pairs : TRUE
         IN ArchiveAll(_archive_key_pair(files, key_pair), key_pairs \ {key_pair})

\* the files that rotate_keys leaves: the new pair is saved, the pairs that
\* leave the active set are archived
rotate_keys_files(keys, files, now) ==
    LET key_pair == NewKeyPair(now)
        saved == _save_key_pair(files, key_pair, safe_path(key_pair))
        with_new == generate_key_pair(keys, now)
        expired == {k \in DOMAIN with_new :
                      with_new[k].expires_at < now - key_overlap * Day}
    IN ArchiveAll(saved, {with_new[k] : k \in expired})

\* what a rotate_keys call did: the key it generated, the keys it removed
RotateCall(keys, now) ==
    [op |-> "rotate_keys", new_key |-> NewKeyPair(now).key_id,
     removed |-> (DOMAIN keys \cup {NewKeyPair(now).key_id}) \ DOMAIN rotate_keys(keys, now),
     result |-> None]

\* the test of KeyManager._key_rotation_loop: some key expires within a day
RotationDue(keys, now) == \E k \in DOMAIN keys : keys[k].expires_at <= now + Day

\* one pass of KeyManager._key_rotation_loop: rotate if a key expires within a
\* day
rotation_pass(keys, now) ==
    IF RotationDue(keys, now) THEN rotate_keys(keys, now) ELSE keys

Unexpired(keys, now) == {k \in DOMAIN keys : now <= keys[k].expires_at}

\* KeyManager.get_active_key as its caller sees it
KeyManager_get_active_key(keys) ==
    IF DOMAIN keys = {} THEN Raise ELSE Return(get_active_key(keys))

\* KeyManager.get_active_private_key as its caller sees it
KeyManager_get_active_private_key(keys) ==
    IF DOMAIN keys = {} THEN Raise ELSE Return(get_active_private_key(keys))

\* a close() that returns without cancelling the task
KeyManager_close_NoCancel(task) ==
    IF task = None THEN None ELSE [task EXCEPT !.closed = TRUE]

\* KeyManager.close: the rotation task is cancelled and awaited; the loop's
\* except clauses catch Exception, which CancelledError is not, so the task ends
KeyManager_close(task) ==
    IF task = None THEN None
    ELSE [task EXCEPT !.cancelled = TRUE, !.closed = TRUE]

KeyRest == <<test_now, signed, verified, rate_state, call, queue, limiter, fanout, signing, inflight>>

\* a day passes; the rotation loop, once due, wakes before the next day
KeyTick ==
    /\ rotation_task # None
    /\ rotation_task.cancelled \/ utcnow < rotation_task.next_wake
    /\ utcnow < MaxKeyDays * Day
    /\ utcnow' = utcnow + Day
    /\ UNCHANGED <<KeyRest, active_keys, rotation_task, keys_path, key_call>>

\* rotate_keys is called
RotateKeys ==
    /\ rotation_task # None
    /\ Cardinality(DOMAIN keys_path) < MaxKeys * Cardinality(Exts)
    /\ active_keys' = rotate_keys(active_keys, utcnow)
    /\ keys_path' = rotate_keys_files(active_keys, keys_path, utcnow)
    /\ key_call' = RotateCall(active_keys, utcnow)
    /\ UNCHANGED <<KeyRest, utcnow, rotation_task>>

\* the rotation loop wakes, makes its pass and sleeps for a day
_key_rotation_loop ==
    /\ rotation_task # None
    /\ ~rotation_task.cancelled
    /\ utcnow >= rotation_task.next_wake
    /\ active_keys' = rotation_pass(active_keys, utcnow)
    /\ IF RotationDue(active_keys, utcnow)
       THEN /\ keys_path' = rotate_keys_files(active_keys, keys_path, utcnow)
            /\ key_call' = RotateCall(active_keys, utcnow)
       ELSE UNCHANGED <<keys_path, key_call>>
    /\ rotation_task' = [rotation_task EXCEPT !.next_wake = utcnow + Day]
    /\ UNCHANGED <<KeyRest, utcnow>>

\* get_active_key and get_active_private_key are called
GetActiveKey ==
    /\ key_call.op # "get_active_key"
    /\ key_call' = [key_call EXCEPT
                      !.op = "get_active_key",
                      !.result = [key |-> KeyManager_get_active_key(active_keys),
                                  private_key |-> KeyManager_get_active_private_key(active_keys)]]
    /\ UNCHANGED <<KeyRest, utcnow, active_keys, rotation_task, keys_path>>

\* close is called
CloseKeyManager ==
    /\ rotation_task # None
    /\ ~rotation_task.closed
    /\ rotation_task' = KeyManager_close(rotation_task)
    /\ UNCHANGED <<KeyRest, utcnow, active_keys, keys_path, key_call>>

\* the process is started again: a new KeyManager on the same keys_path
NewKeyManager ==
    /\ rotation_task # None
    /\ active_keys' = EmptyDict
    /\ rotation_task' = None
    /\ key_call' = NoKeyCall
    /\ UNCHANGED <<KeyRest, utcnow, keys_path>>

KeysNext ==
    \/ initialize
    \/ KeyTick
    \/ RotateKeys
    \/ _key_rotation_loop
    \/ GetActiveKey
    \/ CloseKeyManager
    \/ NewKeyManager

SpecKeys == Init /\ [][KeysNext]_vars

\* C20: once initialize has completed, the active set contains exactly one key
\* that is not expired
C20_OneUnexpiredKey ==
    rotation_task # None => Cardinality(Unexpired(active_keys, utcnow)) = 1

\* the key pairs whose metadata lies under keys_path or its archive
Persisted ==
    {[key_id |-> keys_path[f].key_id,
      expires_at |-> fromisoformat(keys_path[f].expires_at)] :
        f \in {g \in DOMAIN keys_path : g.ext = ".json"}}

\* the key pairs that are past their expiry and within the overlap after it
InOverlap ==
    {kp \in Persisted :
        /\ kp.expires_at < utcnow
        /\ utcnow <= kp.expires_at + key_overlap * Day}

\* C21: a key past its expires_at stays resolvable for verification until
\* expires_at + key_overlap has elapsed: while a KeyManager is initialized,
\* every persisted key that is within its overlap window is in the active set,
\* also after rotate_keys has run and after a re-initialization
C21_ResolvableInOverlap ==
    rotation_task # None => \A kp \in InOverlap : kp.key_id \in DOMAIN active_keys

\* C22: after rotate_keys has returned, get_active_key returns the key pair
\* that this rotation generated, which is the most recently created key of the
\* active set, and get_active_private_key returns its private key; with an
\* empty active set both fail
C22_ActiveIsNewest ==
    key_call.op = "get_active_key" =>
        /\ DOMAIN active_keys = {} =>
              ~key_call.result.key.ok /\ ~key_call.result.private_key.ok
        /\ key_call.new_key # None =>
              /\ key_call.result.key.ok
              /\ key_call.result.key.value.key_id = key_call.new_key
              /\ key_call.result.key.value = active_keys[key_call.new_key]
              /\ \A j \in DOMAIN active_keys :
                    active_keys[j].created_at <= key_call.result.key.value.created_at
              /\ key_call.result.private_key.ok
              /\ key_call.result.private_key.value =
                    active_keys[key_call.new_key].private_key

\* a rotation added a key to an older one, and get_active_key returned the new
\* one
C22_Witness ==
    /\ key_call.op = "get_active_key"
    /\ key_call.new_key # None
    /\ Cardinality(DOMAIN active_keys) >= 2
    /\ key_call.result.key.ok
    /\ key_call.result.key.value.key_id = key_call.new_key

\* the files of a directory that hold an artifact of the key pair key_id
Artifacts(key_id, dir) ==
    {f \in DOMAIN keys_path :
        /\ f.dir = dir
        /\ f.stem.safe_domain = key_id.domain
        /\ f.stem.safe_timestamp = key_id.ts}

\* C23: rotate_keys removes from the active set exactly the keys whose
\* expires_at + key_overlap lies in the past, and the three artifacts of each
\* removed key are in the archive and none of them is in the keys directory
C23_ArchivedNotDeleted ==
    key_call.op = "rotate_keys" =>
        LET now == key_call.new_key.ts
            past(expires_at) == expires_at + key_overlap * Day < now
        IN /\ \A k \in DOMAIN active_keys : ~past(active_keys[k].expires_at)
           /\ \A kp \in Persisted :
                 kp.key_id \in key_call.removed => past(kp.expires_at)
           /\ \A k \in key_call.removed :
                 /\ Artifacts(k, "keys") = {}
                 /\ {f.ext : f \in Artifacts(k, "archive")} = Exts

\* a rotation removed a key from the active set
C23_Removed ==
    key_call.op = "rotate_keys" /\ key_call.removed # {}

(***************************************************************************)
(* ActivityDelivery.deliver_to_shared_inbox (federation/delivery.py)       *)
(*                                                                         *)
(* A recipient is an actor URL, kept as its host and its user; an inbox is *)
(* a URL, kept as its host and its path.  The discovery collaborator is    *)
(* the one of the specification: get_instance_info(domain) and             *)
(* get_actor(id).  A delivery is one deliver_to_inbox operation, from its  *)
(* start inside asyncio.gather to its return.                              *)
(***************************************************************************)
\* the recipients of a call are at most MaxRecipients distinct actors
MaxRecipients == 3

Actor(domain, user) == [domain |-> domain, user |-> user]

\* the actors of the model: b.example advertises a shared inbox, c.example
\* does not, discovery of d.example fails; the actor ghost has no inbox
Actors ==
    {Actor("b.example", "u1"), Actor("b.example", "u2"),
     Actor("c.example", "u1"), Actor("c.example", "u2"),
     Actor("c.example", "ghost"), Actor("d.example", "u1")}

\* ActivityDelivery(max_concurrent=...): the values the model constructs with
Concurrency == {1, 2}

\* urlparse(recipient).netloc
netloc(recipient) == recipient.domain

SharedInbox(domain) == [domain |-> domain, path |-> "inbox"]
ActorInbox(actor) == [domain |-> actor.domain, path |-> actor.user]

\* discovery.get_instance_info(domain): the instance's info, or an error
get_instance_info(domain) ==
    CASE domain = "b.example" -> Return([shared_inbox |-> SharedInbox(domain)])
      [] domain = "d.example" -> Raise
      [] OTHER -> Return([shared_inbox |-> None])

\* discovery.get_actor(id): the actor document, or None
get_actor(recipient) ==
    IF recipient.user = "ghost" THEN Return(None)
    ELSE Return([inbox |-> ActorInbox(recipient)])

\* domain_inboxes[domain].add(inbox) on the defaultdict(set), which keeps its
\* keys in the order of their first use
AddInbox(domain_inboxes, domain, inbox) ==
    IF \E i \in 1..Len(domain_inboxes) : domain_inboxes[i].domain = domain
    THEN [i \in 1..Len(domain_inboxes) |->
            IF domain_inboxes[i].domain = domain
            THEN [domain_inboxes[i] EXCEPT !.inboxes = @ \cup {inbox}]
            ELSE domain_inboxes[i]]
    ELSE Append(domain_inboxes, [domain |-> domain, inboxes |-> {inbox}])

\* the grouping loop of deliver_to_shared_inbox: the shared inbox of the
\* recipient's domain if it advertises one, else the recipient's own inbox if
\* it has one; an error of the discovery leaves the loop
RECURSIVE GroupByDomain(_, _)
GroupByDomain(recipients, domain_inboxes) ==
    IF recipients = <<>> THEN Return(domain_inboxes)
    ELSE LET recipient == Head(recipients)
             domain == netloc(recipient)
             instance_info == get_instance_info(domain)
             actor == get_actor(recipient)
         IN IF ~instance_info.ok THEN Raise
            ELSE IF instance_info.value # None /\ instance_info.value.shared_inbox # None
            THEN GroupByDomain(Tail(recipients),
                               AddInbox(domain_inboxes, domain,
                                        instance_info.value.shared_inbox))
            ELSE IF ~actor.ok THEN Raise
            ELSE IF actor.value # None
            THEN GroupByDomain(Tail(recipients),
                               AddInbox(domain_inboxes, domain, actor.value.inbox))
            ELSE GroupByDomain(Tail(recipients), domain_inboxes)

\* the order in which a set of inboxes is iterated
InboxRank(inbox) ==
    CASE inbox.path = "inbox" -> 0
      [] inbox.path = "u1" -> 1
      [] inbox.path = "u2" -> 2
      [] OTHER -> 3

RECURSIVE InboxSeq(_)
InboxSeq(inboxes) ==
    IF inboxes = {} THEN <<>>
    ELSE LET first == CHOOSE i \in inboxes :
                        \A j \in inboxes : InboxRank(i) <= InboxRank(j)
         IN <<first>> \o InboxSeq(inboxes \ {first})

\* for domain, inboxes in domain_inboxes.items(): for inbox in inboxes
RECURSIVE InboxesInOrder(_)
InboxesInOrder(domain_inboxes) ==
    IF domain_inboxes = <<>> THEN <<>>
    ELSE InboxSeq(Head(domain_inboxes).inboxes) \o InboxesInOrder(Tail(domain_inboxes))

\* a variant that gathers only when the tasks outnumber max_concurrent
BatchLen_OneMore(pending, max_concurrent) ==
    IF Len(pending) < max_concurrent + 1 THEN Len(pending) ELSE max_concurrent + 1

\* the tasks of one asyncio.gather: a task is appended, and the tasks are
\* gathered once len(tasks) >= max_concurrent, or when no inbox is left
BatchLen(pending, max_concurrent) ==
    IF Len(pending) < max_concurrent THEN Len(pending) ELSE max_concurrent

\* deliver_to_inbox from its start to its return: every path returns a
\* DeliveryResult that lists the inbox in success or in failed
InboxOutcomes == {"success", "failed"}

\* the call continues from a list of inboxes not yet delivered to: the next
\* tasks are gathered, or the result is returned
Gather(f, pending) ==
    IF pending = <<>>
    THEN [f EXCEPT !.pc = "returned", !.pending = <<>>, !.batch = <<>>,
                   !.in_flight = {}, !.outcome = EmptyDict]
    ELSE LET n == BatchLen(pending, f.max_concurrent)
             batch == SubSeq(pending, 1, n)
         IN [f EXCEPT !.pc = "gather",
                      !.pending = SubSeq(pending, n + 1, Len(pending)),
                      !.batch = batch,
                      !.in_flight = {batch[i] : i \in 1..n},
                      !.outcome = EmptyDict,
                      !.started = @ \o batch]

\* result.success.extend(dr.success); result.failed.extend(dr.failed) for the
\* results of a gather, in the order of its tasks
RECURSIVE Extend(_, _, _)
Extend(list, batch, wanted) ==
    IF batch = <<>> THEN list
    ELSE Extend(IF Head(batch) \in wanted THEN Append(list, Head(batch)) ELSE list,
                Tail(batch), wanted)

\* deliver_to_shared_inbox up to its first asyncio.gather, or to its return
deliver_to_shared_inbox(recipients, max_concurrent) ==
    LET f == [pc |-> "grouping", max_concurrent |-> max_concurrent,
              recipients |-> recipients, pending |-> <<>>, batch |-> <<>>,
              in_flight |-> {}, outcome |-> EmptyDict, started |-> <<>>,
              success |-> <<>>, failed |-> <<>>, error_message |-> "None"]
        domain_inboxes == GroupByDomain(recipients, <<>>)
    IN IF ~domain_inboxes.ok
       THEN [f EXCEPT !.pc = "returned", !.error_message = "exception"]
       ELSE Gather(f, InboxesInOrder(domain_inboxes.value))

\* a deliver_to_inbox of the gather returns; with the last one the gather
\* returns, the results are added to the result and the call continues
InboxReturned(f, inbox, outcome) ==
    LET outcomes == Put(f.outcome, inbox, outcome)
        in_flight == f.in_flight \ {inbox}
        succeeded == {i \in DOMAIN outcomes : outcomes[i] = "success"}
        rejected == {i \in DOMAIN outcomes : outcomes[i] = "failed"}
    IN IF in_flight # {}
       THEN [f EXCEPT !.outcome = outcomes, !.in_flight = in_flight]
       ELSE Gather([f EXCEPT !.success = Extend(@, f.batch, succeeded),
                             !.failed = Extend(@, f.batch, rejected)],
                   f.pending)

\* the lists of at most n distinct members of S
DistinctSeqs(S, n) ==
    {q \in UNION {[1..m -> S] : m \in 0..n} :
        \A i, j \in 1..Len(q) : i # j => q[i] # q[j]}

FanRest ==
    <<active_keys, utcnow, test_now, signed, verified, rate_state, call, queue,
      limiter, rotation_task, keys_path, key_call, signing, inflight>>

\* a caller delivers an activity to a list of recipients
DeliverToSharedInbox ==
    /\ fanout.pc = "none"
    /\ \E recipients \in DistinctSeqs(Actors, MaxRecipients) \ {<<>>},
          max_concurrent \in Concurrency :
          fanout' = deliver_to_shared_inbox(recipients, max_concurrent)
    /\ UNCHANGED FanRest

\* one of the deliveries in flight returns
DeliverToInboxReturns ==
    /\ fanout.pc = "gather"
    /\ \E inbox \in fanout.in_flight, outcome \in InboxOutcomes :
          fanout' = InboxReturned(fanout, inbox, outcome)
    /\ UNCHANGED FanRest

FanoutNext ==
    \/ DeliverToSharedInbox
    \/ DeliverToInboxReturns

SpecFanout == Init /\ [][FanoutNext]_vars

\* the members of a list
Range(list) == {list[i] : i \in 1..Len(list)}

\* the domain advertises a shared inbox; the domain is known to advertise none
Advertises(domain) ==
    /\ get_instance_info(domain).ok
    /\ get_instance_info(domain).value # None
    /\ get_instance_info(domain).value.shared_inbox # None

NoSharedInbox(domain) == get_instance_info(domain).ok /\ ~Advertises(domain)

HasInbox(recipient) == get_actor(recipient).ok /\ get_actor(recipient).value # None

\* three recipients across two domains, one of which advertises a shared inbox
Scenario(recipients) ==
    /\ Len(recipients) = 3
    /\ Cardinality({netloc(r) : r \in Range(recipients)}) = 2
    /\ Cardinality({d \in {netloc(r) : r \in Range(recipients)} : Advertises(d)}) = 1

\* C24: a returned deliver_to_shared_inbox has made exactly one delivery to
\* the shared inbox of every recipient domain that advertises one and one
\* delivery to every distinct actor inbox of the recipients on domains without
\* a shared inbox, and no other; with three recipients across two domains of
\* which one advertises a shared inbox it has made exactly two deliveries, and
\* both are in the aggregated result
C24_OnePostPerInbox ==
    fanout.pc = "returned" =>
        LET recipients == Range(fanout.recipients)
            started == Range(fanout.started)
            expected ==
                {SharedInbox(netloc(r)) : r \in {x \in recipients : Advertises(netloc(x))}}
                \cup {ActorInbox(r) : r \in {x \in recipients :
                                               NoSharedInbox(netloc(x)) /\ HasInbox(x)}}
        IN /\ Len(fanout.started) = Cardinality(started)
           /\ expected \subseteq started
           /\ \A inbox \in started :
                 Advertises(inbox.domain) => inbox = SharedInbox(inbox.domain)
           /\ \A inbox \in started :
                 NoSharedInbox(inbox.domain) => inbox \in expected
           /\ Scenario(fanout.recipients) =>
                 /\ Len(fanout.started) = 2
                 /\ started \subseteq Range(fanout.success) \cup Range(fanout.failed)

\* C25: a failure concerning one domain does not prevent the deliveries to the
\* other domains and is recorded in the failed list of the result: in a returned
\* call every recipient of a domain whose discovery succeeded has had its
\* delivery, and every domain whose discovery raised is named in failed
C25_FailureIsolated ==
    fanout.pc = "returned" =>
        LET recipients == Range(fanout.recipients)
            started == Range(fanout.started)
        IN /\ \A r \in recipients :
                 /\ Advertises(netloc(r)) => SharedInbox(netloc(r)) \in started
                 /\ NoSharedInbox(netloc(r)) /\ HasInbox(r) => ActorInbox(r) \in started
           /\ \A r \in recipients :
                 ~get_instance_info(netloc(r)).ok =>
                    \E entry \in Range(fanout.failed) : entry.domain = netloc(r)

\* C26: the deliver_to_inbox operations in flight at one time are never more
\* than max_concurrent
C26_BoundedConcurrency ==
    fanout.pc # "none" => Cardinality(fanout.in_flight) <= fanout.max_concurrent

\* max_concurrent deliveries are in flight while further inboxes wait
C26_Witness ==
    /\ fanout.pc = "gather"
    /\ Cardinality(fanout.in_flight) = fanout.max_concurrent
    /\ fanout.max_concurrent >= 2
    /\ fanout.pending # <<>>

(***************************************************************************)
(* DeliveryQueue: priorities                                               *)
(***************************************************************************)
\* the enqueue calls that the model follows
MaxEnqueued == 2

\* the ids that enqueue gives to the jobs of two calls
EnqueuedJobs == {"d1", "d2"}

\* priority: Delivery priority (0-9, higher is more urgent)
Priorities == {0, 9}

\* a caller enqueues an activity with a priority
EnqueueJob ==
    /\ Len(queue.enqueued) < MaxEnqueued
    /\ \E id \in EnqueuedJobs \ {queue.enqueued[i].id : i \in 1..Len(queue.enqueued)},
          priority \in Priorities :
          LET r == enqueue(queue, utcnow, id, Recipients, priority)
          IN queue' = [r.queue EXCEPT
                         !.api = [op |-> "enqueue", id |-> id,
                                  raised |-> r.raised, found |-> FALSE],
                         !.enqueued = Append(@, [id |-> id, at |-> utcnow,
                                                 priority |-> priority,
                                                 raised |-> r.raised])]
    /\ UNCHANGED <<Others, utcnow>>

PriorityNext ==
    \/ QueueTick
    \/ EnqueueJob
    \/ GetStatus

SpecPriority == Init /\ [][PriorityNext]_vars

\* C27: of two jobs enqueued at the same time, the one with the higher
\* priority is in the schedule index at an earlier position than the other
C27_PriorityOrder ==
    \A a, b \in Range(queue.enqueued) :
        a.at = b.at /\ a.priority > b.priority =>
            /\ a.id \in DOMAIN queue.index
            /\ b.id \in DOMAIN queue.index
            /\ queue.index[a.id] < queue.index[b.id]

(***************************************************************************)
(* DeliveryQueue: the worker loop with two due jobs and a failing Redis    *)
(***************************************************************************)
\* the Redis commands that fail in one run of the model
MaxFaults == 2

\* the jobs that the worker finds in Redis
WorkerJobs == {"d1", "d2"}

\* DeliveryQueue(batch_size=...): the values the model constructs with
BatchSizes == {1, batch_size}

WorkerInit ==
    /\ active_keys = EmptyDict
    /\ utcnow = 0
    /\ test_now = NoTime
    /\ signed = NoSigned
    /\ verified = NoVerified
    /\ rate_state = EmptyDict
    /\ call = NoCall
    /\ limiter = NoLimiter
    /\ rotation_task = None
    /\ keys_path = EmptyDict
    /\ key_call = NoKeyCall
    /\ fanout = NoFanout
    /\ signing = NoSigning
    /\ inflight = NoInflight
    /\ \E size \in BatchSizes :
       queue = [EmptyQueue EXCEPT
                  !.batch_size = size,
                  !.store = [j \in WorkerJobs |-> StoredDelivery(j, 0)],
                  !.index = [j \in WorkerJobs |-> 0],
                  !.log = [base |-> [j \in WorkerJobs |-> 0],
                           started |-> [j \in WorkerJobs |-> 0],
                           marked |-> [j \in WorkerJobs |-> "none"],
                           wait |-> [j \in WorkerJobs |-> 0],
                           last |-> NoLast]]

\* the except clause of _process_queue_loop: the error is logged, the task
\* sleeps 5 seconds and the loop makes its next pass
LoopCaught(worker) == [pc |-> "poll", batch |-> <<>>, delivery |-> None]

\* redis.zrangebyscore raises in _process_queue_loop
ZrangebyscoreFails ==
    /\ queue.worker.pc = "poll"
    /\ queue.faults < MaxFaults
    /\ queue' = [queue EXCEPT !.worker = LoopCaught(@), !.faults = @ + 1]
    /\ UNCHANGED <<Others, utcnow>>

\* redis.get raises in _process_delivery: the outer except clause logs it and
\* the call returns, the loop goes on with the next id of the batch
GetFails ==
    /\ queue.worker.pc = "batch"
    /\ queue.faults < MaxFaults
    /\ queue' = [queue EXCEPT !.worker = AfterHead(@), !.faults = @ + 1]
    /\ UNCHANGED <<Others, utcnow>>

\* redis.zadd raises when a failed attempt is rescheduled: the inner except
\* clause sets the object FAILED, as for an exception of the delivery
ZaddFails ==
    /\ queue.worker.pc = "delivering"
    /\ queue.worker.delivery.attempts < max_attempts
    /\ queue.faults < MaxFaults
    /\ LET d == queue.worker.delivery
           outcome == [raised |-> TRUE, success |-> {}]
           a == Attempted(d, queue.index, outcome, utcnow)
           r == Recorded(queue.store, a.index, a.delivery)
       IN queue' = [queue EXCEPT
             !.store = r.store,
             !.index = r.index,
             !.worker = AfterHead(@),
             !.faults = @ + 1,
             !.log.marked[d.id] = a.delivery.status.v,
             !.log.wait[d.id] = 0,
             !.log.last = [id |-> d.id, outcome |-> OutcomeKind(outcome),
                           attempts |-> d.attempts, at |-> utcnow,
                           failed |-> Recipients,
                           prev_wait |-> queue.log.wait[d.id]]]
    /\ UNCHANGED <<Others, utcnow>>

WorkerNext ==
    \/ _process_queue_loop
    \/ BeginDelivery
    \/ FinishDelivery
    \/ ZrangebyscoreFails
    \/ GetFails
    \/ ZaddFails

\* the worker within one minute of the clock; the task is scheduled whenever
\* it can run
SpecWorkerFair ==
    /\ WorkerInit
    /\ [][WorkerNext]_vars
    /\ WF_vars(_process_queue_loop)
    /\ WF_vars(BeginDelivery)
    /\ WF_vars(FinishDelivery)

\* the job is in the index with a score that has come; the worker is making
\* an attempt of the job
Due(j) == j \in DOMAIN queue.index /\ queue.index[j] <= utcnow
Attempting(j) == queue.worker.pc = "delivering" /\ queue.worker.delivery.id = j

DeliveryQueue_close(worker) == [pc |-> "cancelled", batch |-> <<>>, delivery |-> None]

\* close is called on the queue
CloseQueue ==
    /\ queue.api.op # "close"
    /\ queue' = [queue EXCEPT !.worker = DeliveryQueue_close(@),
                              !.api = [op |-> "close", id |-> "none",
                                       raised |-> FALSE, found |-> FALSE]]
    /\ UNCHANGED <<Others, utcnow>>

\* a KeyManager and a DeliveryQueue with their background loops, over the
\* first minutes of the process
CloseNext ==
    \/ initialize
    \/ QueueTick
    \/ _key_rotation_loop
    \/ CloseKeyManager
    \/ _process_queue_loop
    \/ BeginDelivery
    \/ FinishDelivery
    \/ CloseQueue

SpecClose == QueueInit /\ [][CloseNext]_vars

NoActiveKeyFailure == call.error_message = "SignatureError"

\* C31: deliver_to_inbox returns remote failures (non-2xx, timeout, connection
\* error) as a DeliveryResult and does not raise for them; it raises on
\* mis-initialization and only then: a call made without an active signing
\* key ends with an exception, not with a DeliveryResult
C31_OnlyMisinitRaises ==
    /\ (call.pc = "done" /\ ~NoActiveKeyFailure) => (InSuccess \/ InFailed)
    /\ call.pc = "raised" => NoActiveKeyFailure
    /\ NoActiveKeyFailure => (call.pc = "raised" /\ ~InFailed)

(***************************************************************************)
(* sign_request next to a key rotation                                     *)
(*                                                                         *)
(* The coroutines run on one event loop: a task gives way to another task  *)
(* only where it awaits something that is not ready.                       *)
(***************************************************************************)
\* the clock of the signing model runs for MaxSignTime minutes
MaxSignTime == 2

\* an event loop that runs other tasks at every await
Suspends_AtEveryAwait(coroutine) ==
    TRUE

\* whether `await coroutine()` lets other tasks run: generate_key_pair awaits
\* the file writes of _save_key_pair; get_active_private_key and get_active_key
\* have no await in their bodies and return without giving way
Suspends(coroutine) ==
    coroutine \in {"generate_key_pair"}

\* the requests signed in this model
SignHeaders == { [Host |-> Text(LocalDomain)],
                 [host |-> Text(LocalDomain), date |-> strftime(0)] }
SignBodies == {None, [a |-> "1"]}

\* what the model keeps of a sign_request call: its arguments, the clock and
\* the active set it read, whether a rotation was suspended meanwhile, and
\* what it returned
SignCallRecord(args, now, keys, out) ==
    [args |-> args, now |-> now, keys |-> keys,
     rotating |-> key_call.op = "generate_key_pair", out |-> out]

\* the call is kept as the first call or as the latest one
Keep(s, record) ==
    IF s.first = None
    THEN [s EXCEPT !.pc = "idle", !.held = None, !.first = record]
    ELSE [s EXCEPT !.pc = "idle", !.held = None, !.last = record]

\* sign_request from `active_key = await self.key_manager.get_active_key()` on
SignFinish(s, args, now, private_key, keys) ==
    LET active_key == KeyManager_get_active_key(active_keys)
        out == IF ~active_key.ok THEN Raise
               ELSE SignedHeaders(args.method, args.path, args.headers, args.body,
                                  private_key, active_key.value.key_id, now)
    IN Keep(s, SignCallRecord(args, now, keys, out))

SignRest ==
    <<test_now, signed, verified, rate_state, call, queue, limiter, fanout, inflight>>

\* a minute passes
SigningTick ==
    /\ utcnow < MaxSignTime
    /\ utcnow' = utcnow + 1
    /\ UNCHANGED <<KeyRest, active_keys, rotation_task, keys_path, key_call>>

\* rotate_keys is called and runs to the file writes of generate_key_pair:
\* the new pair is made and saved, the task is suspended before the pair
\* enters active_keys
RotateKeysBegin ==
    /\ rotation_task # None
    /\ key_call.op # "generate_key_pair"
    /\ Cardinality(DOMAIN keys_path) < MaxKeys * Cardinality(Exts)
    /\ keys_path' = _save_key_pair(keys_path, NewKeyPair(utcnow), safe_path(NewKeyPair(utcnow)))
    /\ key_call' = [NoKeyCall EXCEPT !.op = "generate_key_pair",
                                     !.result = NewKeyPair(utcnow)]
    /\ UNCHANGED <<KeyRest, utcnow, active_keys, rotation_task>>

\* the rest of rotate_keys: the new pair enters active_keys, the pairs that
\* expired more than key_overlap days ago are archived and removed
RotateKeysResume ==
    /\ key_call.op = "generate_key_pair"
    /\ LET new_pair == key_call.result
           with_new == Put(active_keys, new_pair.key_id, new_pair)
           expired == {k \in DOMAIN with_new :
                         with_new[k].expires_at < utcnow - key_overlap * Day}
       IN /\ active_keys' = [k \in (DOMAIN with_new) \ expired |-> with_new[k]]
          /\ keys_path' = ArchiveAll(keys_path, {with_new[k] : k \in expired})
          /\ key_call' = [op |-> "rotate_keys", new_key |-> new_pair.key_id,
                          removed |-> expired, result |-> None]
    /\ UNCHANGED <<KeyRest, utcnow, rotation_task>>

\* sign_request is called, or goes on after an await at which it gave way
SignWhileRotating ==
    /\ IF signing.pc = "idle"
       THEN \E headers \in SignHeaders, body \in SignBodies :
               LET args == [method |-> "POST", path |-> SignPath,
                            headers |-> headers, body |-> body]
                   private_key == KeyManager_get_active_private_key(active_keys)
               IN IF ~private_key.ok
                  THEN signing' = Keep(signing, SignCallRecord(args, Now, active_keys, Raise))
                  ELSE IF Suspends("get_active_private_key")
                  THEN signing' = [signing EXCEPT
                                     !.pc = "key_read",
                                     !.held = [args |-> args, now |-> Now,
                                               private_key |-> private_key.value,
                                               keys |-> active_keys]]
                  ELSE signing' = SignFinish(signing, args, Now, private_key.value,
                                             active_keys)
       ELSE signing' = SignFinish(signing, signing.held.args, signing.held.now,
                                  signing.held.private_key, signing.held.keys)
    /\ UNCHANGED <<SignRest, utcnow, active_keys, rotation_task, keys_path, key_call>>

SigningNext ==
    \/ initialize
    \/ SigningTick
    \/ RotateKeysBegin
    \/ RotateKeysResume
    \/ SignWhileRotating

SpecSigning == Init /\ [][SigningNext]_vars

\* the sign_request calls that returned headers
Returned == {c \in {signing.first, signing.last} \ {None} : c.out.ok}

\* the active key a call read
ActiveKeyOf(c) == get_active_key(c.keys).key_id

EmittedKeyId(c) == c.out.value["Signature"].parts[1].v
EmittedSignature(c) == c.out.value["Signature"].parts[4].v.b64

\* the key pairs the KeyManager can have generated
GeneratedPairs == {NewKeyPair(t) : t \in 0..MaxSignTime}

\* C36: the keyId that sign_request emits identifies the key pair whose
\* private key made the signature, also when rotate_keys runs next to it
C36_KeyIdMatchesSigner ==
    \A c \in Returned :
        \E pair \in GeneratedPairs :
            /\ pair.key_id = EmittedKeyId(c)
            /\ pair.private_key = EmittedSignature(c).signer

\* a call returned while a rotation was suspended in its file writes, and
\* another after that rotation had put a newer key into the active set
C36_Witness ==
    /\ signing.first # None /\ signing.last # None
    /\ signing.first.out.ok /\ signing.last.out.ok
    /\ signing.first.rotating
    /\ Cardinality(DOMAIN signing.last.keys) = 2
    /\ EmittedKeyId(signing.first) # EmittedKeyId(signing.last)

(***************************************************************************)
(* RateLimiter.update_rate_limit on the response headers as they arrive    *)
(***************************************************************************)
\* the domains whose states the limiter of this model holds
RateDomains == {"b.example", "c.example"}

\* a header value: the decimal text of an integer, or some other text
IntText(n) == [int |-> n]
OtherText(t) == [text |-> t]

\* int(value): ValueError on a text that is not an integer
int(value) == IF "int" \in DOMAIN value THEN Return(value.int) ELSE Raise

\* headers.get('X-RateLimit-Remaining'), ('X-RateLimit-Reset') and
\* ('X-RateLimit-Limit') of a response: None for a header that is absent
ResponseRateHeaders(now) ==
    { [remaining |-> None, reset |-> None, limit |-> None],
      [remaining |-> IntText(0), reset |-> None, limit |-> None],
      [remaining |-> IntText(0), reset |-> IntText(now + 1), limit |-> IntText(2)],
      [remaining |-> IntText(0), reset |-> OtherText("2026-01-01T00:00:00Z"),
       limit |-> IntText(2)] }

\* all three headers are there
AllThree(headers) ==
    headers.remaining # None /\ headers.reset # None /\ headers.limit # None

\* RateLimiter.update_rate_limit on such headers: the limiter it leaves, or
\* the ValueError of int()
RateLimiter_update_rate_limit_from(l, domain, headers) ==
    IF ~AllThree(headers) THEN Return(l)
    ELSE IF ~int(headers.remaining).ok \/ ~int(headers.reset).ok \/ ~int(headers.limit).ok
    THEN Raise
    ELSE Return(RateLimiter_update_rate_limit(l, domain,
                    [present |-> TRUE, remaining |-> int(headers.remaining).value,
                     reset |-> int(headers.reset).value,
                     limit |-> int(headers.limit).value]))

\* check_rate_limit(domain) is called
CheckRateLimitOf ==
    /\ limiter.made
    /\ \E domain \in RateDomains :
          limiter' = RateLimiter_check_rate_limit(limiter, domain).l
    /\ UNCHANGED Rest

\* update_rate_limit(domain, response.headers) is called
UpdateRateLimitFrom ==
    /\ limiter.made
    /\ \E domain \in RateDomains, headers \in ResponseRateHeaders(limiter.now) :
          LET r == RateLimiter_update_rate_limit_from(limiter, domain, headers)
              l == IF r.ok THEN r.value ELSE limiter
          IN limiter' = [l EXCEPT !.last = [flip |-> ~limiter.last.flip,
                                            domain |-> domain, raised |-> ~r.ok,
                                            headers |-> headers]]
    /\ UNCHANGED Rest

RateUpdateNext ==
    \/ MakeLimiter
    \/ LimiterTick
    \/ CheckRateLimitOf
    \/ UpdateRateLimitFrom

SpecRateUpdate == Init /\ [][RateUpdateNext]_vars

\* the cached state of a domain, None when the cache holds none
StateOf(l, domain) == IF domain \in DOMAIN l.data THEN l.data[domain] ELSE None

\* the step is an update_rate_limit call
UpdateStep == limiter.made /\ limiter'.made /\ limiter'.last.flip # limiter.last.flip

\* C33: update_rate_limit overwrites the domain's remaining, limit and reset
\* with the remote's values when the response carries all three rate-limit
\* headers, leaves the domain's state unchanged otherwise, and leaves the
\* state of every other domain unchanged in every case
C33_UpdateFrame ==
    [][ UpdateStep =>
          LET u == limiter'.last
          IN /\ AllThree(u.headers)
                => /\ ~u.raised
                   /\ StateOf(limiter', u.domain) # None
                   /\ IntText(StateOf(limiter', u.domain).remaining) = u.headers.remaining
                   /\ IntText(StateOf(limiter', u.domain).reset) = u.headers.reset
                   /\ IntText(StateOf(limiter', u.domain).limit) = u.headers.limit
             /\ ~AllThree(u.headers)
                => StateOf(limiter', u.domain) = StateOf(limiter, u.domain)
             /\ \A other \in RateDomains \ {u.domain} :
                   StateOf(limiter', other) = StateOf(limiter, other) ]_vars

(***************************************************************************)
(* KeyManager._key_rotation_loop when rotate_keys fails                    *)
(***************************************************************************)
\* a loop whose except clause lets the exception through: the task ends
RotationLoopCaught_Escapes(task, now) ==
    [task EXCEPT !.cancelled = TRUE]

\* except Exception: logger.error(...); await asyncio.sleep(3600): the task
\* stays alive and wakes an hour later
RotationLoopCaught(task, now) ==
    [task EXCEPT !.next_wake = now + Hour]

\* a rotate_keys call that raised KeyManagementError: the key files could not
\* be written, so nothing is saved and active_keys is as it was
RotateRaised(now) ==
    [op |-> "rotate_keys", new_key |-> NewKeyPair(now).key_id, removed |-> {},
     result |-> Raise]

\* the rotation loop wakes, a key expires within a day, and rotate_keys raises
RotationPassFails ==
    /\ rotation_task # None
    /\ ~rotation_task.cancelled
    /\ utcnow >= rotation_task.next_wake
    /\ RotationDue(active_keys, utcnow)
    /\ key_call' = RotateRaised(utcnow)
    /\ rotation_task' = RotationLoopCaught(rotation_task, utcnow)
    /\ UNCHANGED <<KeyRest, utcnow, active_keys, keys_path>>

RotationNext ==
    \/ initialize
    \/ KeyTick
    \/ _key_rotation_loop
    \/ RotationPassFails

SpecRotation == Init /\ [][RotationNext]_vars

\* the step is a wake of the rotation loop: the task goes back to sleep
WakeStep ==
    /\ rotation_task # None
    /\ rotation_task' # None
    /\ rotation_task'.next_wake # rotation_task.next_wake

\* rotate_keys was called at the wake (it made a key at this time or raised)
RotateCalledAtWake ==
    /\ key_call'.op = "rotate_keys"
    /\ key_call'.new_key = NewKeyPair(utcnow).key_id

C35_OneKeyPerInterval ==
    \A k, j \in DOMAIN active_keys :
        k # j => \/ active_keys[k].expires_at <= utcnow + Day
                 \/ active_keys[j].expires_at <= utcnow + Day

(***************************************************************************)
(* Concurrent deliver_to_inbox calls to one domain                         *)
(*                                                                         *)
(* The calls are tasks of one event loop (the gather of                    *)
(* deliver_to_shared_inbox, the callers of the service).  A call runs      *)
(* from check_rate_limit to session.post without giving way, unless the    *)
(* limiter denies it: then it sleeps for get_wait_time and goes on to      *)
(* sign and POST.  The period of the limiter is one minute, so a window    *)
(* is a minute of the clock; `posts` counts the POSTs of the current one.  *)
(* The remote answers 202 without rate-limit headers.                      *)
(***************************************************************************)
\* the clock of this model runs for MaxInflightTime minutes
MaxInflightTime == 2
\* the calls that are asleep at one time
MaxSleeping == 1

\* deliver_to_inbox from `headers = {...}` on: sign_request, then session.post;
\* the number of POSTs sent by it
PostsSent(keys, now) ==
    LET headers == [Host |-> Text(InboxDomain)]
        signed_headers == sign_request("POST", InboxPath, headers, Activity, keys, now)
    IN IF signed_headers.ok THEN 1 ELSE 0

InflightRest ==
    <<test_now, signed, verified, call, queue, limiter, rotation_task,
      keys_path, key_call, fanout, signing>>

\* a minute passes
InflightTick ==
    /\ utcnow < MaxInflightTime
    /\ utcnow' = utcnow + 1
    /\ inflight' = [inflight EXCEPT !.posts = 0]
    /\ UNCHANGED <<InflightRest, active_keys, rate_state>>

\* deliver_to_inbox is called and runs to its first suspension: the POST when
\* check_rate_limit allows the call, asyncio.sleep(wait_time) when it does not
DeliverConcurrently ==
    /\ LET gate == check_rate_limit(rate_state, InboxDomain, Now)
           wait_time == get_wait_time(gate.states, InboxDomain, Now)
       IN IF gate.allowed
          THEN /\ rate_state' = update_rate_limit(gate.states, InboxDomain,
                                                  NoRateHeaders).value
               /\ inflight' = [inflight EXCEPT
                                 !.posts = @ + PostsSent(active_keys, Now)]
          ELSE /\ Len(inflight.sleeping) < MaxSleeping
               /\ rate_state' = _get_state(gate.states, InboxDomain, Now)
               /\ inflight' = [inflight EXCEPT
                                 !.sleeping = Append(@, Now + wait_time)]
    /\ UNCHANGED <<InflightRest, active_keys, utcnow>>

\* a call that was denied wakes from asyncio.sleep(wait_time) and goes on:
\* it signs and POSTs, without asking the limiter again
WakeAndPost ==
    /\ inflight.sleeping # <<>>
    /\ Head(inflight.sleeping) <= Now
    /\ inflight' = [inflight EXCEPT !.sleeping = Tail(@),
                                    !.posts = @ + PostsSent(active_keys, Now)]
    /\ rate_state' = update_rate_limit(rate_state, InboxDomain, NoRateHeaders).value
    /\ UNCHANGED <<InflightRest, active_keys, utcnow>>

InflightNext ==
    \/ initialize
    \/ InflightTick
    \/ DeliverConcurrently
    \/ WakeAndPost

SpecInflight == Init /\ [][InflightNext]_vars

\* C37: the number of POSTs sent to one domain within one rate-limit window
\* never exceeds the domain's limit, for any interleaving of concurrent
\* deliver_to_inbox calls, the calls that check_rate_limit denied and that
\* slept for get_wait_time included
C37_PostsWithinLimit ==
    InboxDomain \in DOMAIN rate_state
    => inflight.posts <= rate_state[InboxDomain].limit

(***************************************************************************)
(* DeliveryQueue.enqueue: the id of a new job                              *)
(***************************************************************************)
\* delivery_id = f"delivery_{datetime.utcnow().timestamp()}"
delivery_id(now) == [delivery |-> now]

\* enqueue(activity, recipients, priority) is called; the id is made from the
\* reading of the clock
EnqueueAtClock ==
    /\ Len(queue.enqueued) < MaxEnqueued
    /\ \E priority \in Priorities :
          LET id == delivery_id(utcnow)
              r == enqueue(queue, utcnow, id, Recipients, priority)
          IN queue' = [r.queue EXCEPT
                         !.api = [op |-> "enqueue", id |-> id,
                                  raised |-> r.raised, found |-> FALSE],
                         !.enqueued = Append(@, [id |-> id, at |-> utcnow,
                                                 priority |-> priority,
                                                 raised |-> r.raised])]
    /\ UNCHANGED <<Others, utcnow>>

EnqueueNext ==
    \/ QueueTick
    \/ EnqueueAtClock

SpecEnqueue == Init /\ [][EnqueueNext]_vars

\* C38: every enqueue call returns an id, and the id differs from the id of
\* every job enqueued before it, also when two jobs are enqueued at the same
\* reading of the clock (so that no record and no schedule entry of another
\* job is overwritten)
C38_FreshId ==
    \A j \in 1..Len(queue.enqueued) :
        /\ ~queue.enqueued[j].raised
        /\ \A i \in 1..(j - 1) : queue.enqueued[i].id # queue.enqueued[j].id

(***************************************************************************)
(* The digest on both sides                                                *)
(***************************************************************************)
\* C39: for every body, the digest that verify_request recomputes from the
\* body equals the digest that sign_request put in the digest header for the
\* same body
C39_SameDigest ==
    (signed.status = "ok" /\ signed.body # None)
    => signed.out["digest"] = expected_digest(signed.body)

====
